---- MODULE Spec2Model ----
(***************************************************************************)
(* Model of the SOAP client toolkit (hufschlaeger/ansible-soap).           *)
(*                                                                         *)
(* Fourteen specifications share this module and its variables:            *)
(*   Spec          the batch orchestrator (BatchSendUseCase), sequential   *)
(*                 and parallel (ThreadPoolExecutor) execution;            *)
(*   SpecSend      the single-request orchestrator                         *)
(*                 (SendSoapRequestUseCase), with endpoint validation,     *)
(*                 SOAP action construction, the retry loop of SoapService *)
(*                 and HttpSoapRepository.send;                            *)
(*   SpecClassify  one dispatch: the HTTP answer, its classification by    *)
(*                 HttpSoapRepository.send, the orchestrator's result;     *)
(*   SpecCache     the response cache of one SoapService over time;        *)
(*   SpecModule    run_module of soap_request, soap_batch, soap_validate;  *)
(*   SpecAsync     send_async and get_response of HttpSoapRepository;      *)
(*   SpecValidate  run_module of soap_validate with its use case;          *)
(*   SpecInput     SoapRequestDTO.validate_input and dto_to_command;       *)
(*   SpecEndpoint  the construction of an Endpoint;                        *)
(*   SpecEnvelope  SoapEnvelope: construction and build;                   *)
(*   SpecXmlBody   XmlBody.from_dict;                                      *)
(*   SpecBatchInput  soap_batch from its parameters to the dispatch;       *)
(*   SpecCacheKey  the keys of the response cache of one SoapService;      *)
(*   SpecSession   the session of one HttpClient shared by worker threads. *)
(* Each specification keeps the variables of the others at their idle      *)
(* values.                                                                 *)
(* The single-request orchestrator is a synchronous function of its        *)
(* command and of what the network answers; it is modelled by operators    *)
(* that return the set of results the code can produce for a command.      *)
(***************************************************************************)
EXTENDS Integers, Sequences, FiniteSets, TLC

(***************************************************************************)
(* Bounds of the model.                                                    *)
(***************************************************************************)
MaxRequests == 3
MaxWorkers == 2
MaxRetries == 2
MaxActionLen == 3
MaxClock == 6
MaxAsync == 3
MaxCloses == 2

VARIABLES
    parallel,        \* BatchSendCommand.parallel
    max_workers,     \* BatchSendCommand.max_workers
    stop_on_error,   \* BatchSendCommand.stop_on_error
    total,           \* len(BatchSendCommand.requests)
    pc,              \* position of the thread that runs BatchSendUseCase.execute
    futures,         \* per request: state of its execution (of its Future in parallel mode)
    outcome,         \* per request: how its SendSoapRequestUseCase.execute call ended
    executions,      \* per request: number of times its execution was started
    results,         \* local list `results`
    successful,      \* local counter `successful`
    failed,          \* local counter `failed`
    index,           \* loop position (for-loop over requests / submit loop / cancel loop)
    yielded,         \* futures already handed out by as_completed
    firstFailure,    \* what was not yet started when the first failure was observed
    upc,             \* position of a single SendSoapRequestUseCase.execute call
    command,         \* its SendSoapRequestCommand
    result,          \* its SendSoapRequestResult (with the trace of repository sends)
    http,            \* what HttpClient.post did for one HttpSoapRepository.send
    reply,           \* what that send returned or raised
    cpc,             \* position of the dispatch that send belongs to
    request_cache,   \* SoapService._request_cache
    now,             \* datetime.now(), in minutes
    succeeded,       \* per cache key: the last successful response a cached request received
    call,            \* the last dispatch made on the service, and how it ended
    params,          \* a module run: the module and what its parameters amount to
    mpc,             \* position of run_module
    checked,         \* number of requests whose parameters passed the input checks
    repository,      \* the HttpSoapRepository of the run: "none", "open" or "closed"
    uc_outcome,      \* how the use case's execute ended in run_module
    exit_call,       \* the call that ended the run: "exit_json" or "fail_json"
    async_responses, \* HttpSoapRepository._async_responses
    started,         \* per request id: number of send_async calls made
    running,         \* per request id: number of background threads not yet finished
    polled,          \* the last get_response call: its argument and what it returned
    vparams,         \* soap_validate: module.params
    vpc,             \* soap_validate: position in run_module
    validation,      \* soap_validate: the ValidateEndpointResult of the use case
    vresult,         \* soap_validate: the result mapping handed to exit_json
    request_dto,     \* the SoapRequestDTO built from the module parameters
    dpc,             \* position between validate_input and dto_to_command
    dto_valid,       \* what validate_input returned: (is_valid, error_message)
    mapped,          \* what dto_to_command returned or raised
    eargs,           \* the arguments of an Endpoint(...) call
    endpoint_entity, \* the outcome of that call
    envelope,        \* the arguments of a SoapEnvelope(...) call
    built,           \* how far the envelope got, and the text build() returned
    xdata,           \* the arguments of an XmlBody.from_dict call
    xbody,           \* what the call returned or raised
    batch_in,        \* soap_batch: module.params (the requests, stop_on_error)
    bpc,             \* soap_batch: position in run_module
    request_dtos,    \* soap_batch: the DTOs that passed validation so far
    commands,        \* soap_batch: the commands built from the DTOs
    dispatched,      \* soap_batch: the outcomes of the requests sent so far
    bexit,           \* soap_batch: the call that ended the run
    key_cache,       \* cache keys: SoapService._request_cache
    key_origin,      \* cache keys: the request whose dispatch produced each entry
    key_call,        \* cache keys: the last execute_request call
    session,         \* HttpClient._session (0 is None, n the n-th Session created)
    sessions_created, \* HttpClient: the Sessions created so far
    sessions_closed, \* HttpClient: the Sessions on which close() was called
    epoch_sessions,  \* HttpClient: the Sessions created since construction or the last close
    tpc,             \* HttpClient: each worker thread's position in post
    local_session,   \* HttpClient: the `session` local of each worker in post
    posts,           \* HttpClient: the post calls begun so far
    closes           \* HttpClient: the close calls so far

batchVars == <<parallel, max_workers, stop_on_error, total, pc, futures, outcome,
               executions, results, successful, failed, index, yielded, firstFailure>>
sendVars == <<upc, command, result>>
classifyVars == <<http, reply, cpc>>
cacheVars == <<request_cache, now, succeeded, call>>
moduleVars == <<params, mpc, checked, repository, uc_outcome, exit_call>>
asyncVars == <<async_responses, started, running, polled>>
validateVars == <<vparams, vpc, validation, vresult>>
inputVars == <<request_dto, dpc, dto_valid, mapped>>
endpointVars == <<eargs, endpoint_entity>>
envelopeVars == <<envelope, built>>
xmlBodyVars == <<xdata, xbody>>
batchInputVars == <<batch_in, bpc, request_dtos, commands, dispatched, bexit>>
cacheKeyVars == <<key_cache, key_origin, key_call>>
sessionVars == <<session, sessions_created, sessions_closed, epoch_sessions, tpc, local_session, posts, closes>>
extVars == <<validateVars, inputVars, endpointVars, envelopeVars, xmlBodyVars, batchInputVars, cacheKeyVars, sessionVars>>
vars == <<parallel, max_workers, stop_on_error, total, pc, futures, outcome,
          executions, results, successful, failed, index, yielded, firstFailure,
          upc, command, result,
          http, reply, cpc,
          request_cache, now, succeeded, call,
          params, mpc, checked, repository, uc_outcome, exit_call,
          async_responses, started, running, polled,
          vparams, vpc, validation, vresult,
          request_dto, dpc, dto_valid, mapped, eargs, endpoint_entity,
          envelope, built, xdata, xbody,
          batch_in, bpc, request_dtos, commands, dispatched, bexit,
          key_cache, key_origin, key_call,
          session, sessions_created, sessions_closed, epoch_sessions, tpc, local_session, posts, closes>>

\* The variables outside the batch orchestrator, outside a single call of
\* the single-request orchestrator, outside a single dispatch, outside the
\* service with its cache and outside a module run.
notBatchVars == <<sendVars, classifyVars, cacheVars, moduleVars, asyncVars, extVars>>
notSendVars == <<batchVars, classifyVars, cacheVars, moduleVars, asyncVars, extVars>>
notClassifyVars == <<batchVars, upc, command, cacheVars, moduleVars, asyncVars, extVars>>
notCacheVars == <<batchVars, sendVars, classifyVars, moduleVars, asyncVars, extVars>>
notModuleVars == <<batchVars, sendVars, classifyVars, cacheVars, asyncVars, extVars>>
notAsyncVars == <<batchVars, sendVars, classifyVars, cacheVars, moduleVars, extVars>>
coreVars == <<batchVars, sendVars, classifyVars, cacheVars, moduleVars, asyncVars>>
notValidateVars == <<coreVars, inputVars, endpointVars, envelopeVars, xmlBodyVars, batchInputVars, cacheKeyVars, sessionVars>>
notInputVars == <<coreVars, validateVars, endpointVars, envelopeVars, xmlBodyVars, batchInputVars, cacheKeyVars, sessionVars>>
notEndpointVars == <<coreVars, validateVars, inputVars, envelopeVars, xmlBodyVars, batchInputVars, cacheKeyVars, sessionVars>>
notEnvelopeVars == <<coreVars, validateVars, inputVars, endpointVars, xmlBodyVars, batchInputVars, cacheKeyVars, sessionVars>>
notXmlBodyVars == <<coreVars, validateVars, inputVars, endpointVars, envelopeVars, batchInputVars, cacheKeyVars, sessionVars>>
notBatchInputVars == <<coreVars, validateVars, inputVars, endpointVars, envelopeVars, xmlBodyVars, cacheKeyVars, sessionVars>>
notCacheKeyVars == <<coreVars, validateVars, inputVars, endpointVars, envelopeVars, xmlBodyVars, batchInputVars, sessionVars>>
notSessionVars == <<coreVars, validateVars, inputVars, endpointVars, envelopeVars, xmlBodyVars, batchInputVars, cacheKeyVars>>

(***************************************************************************)
(* Endpoint and SOAP action                                                *)
(***************************************************************************)

\* The fields of Endpoint that validation reads. username, password and
\* cert_path are TRUE when the field holds a non-empty string.
Endpoints ==
    [urlValid : BOOLEAN,
     auth_type : {"none", "basic", "certificate"},
     username : BOOLEAN,
     password : BOOLEAN,
     cert_path : BOOLEAN,
     default_timeout : {0, 30}]

requires_auth(endpoint) == endpoint.auth_type # "none"

\* validate_endpoint with `and` in place of `or` in the credentials check.
validate_endpoint_and(endpoint) ==
    (IF endpoint.urlValid THEN <<>> ELSE <<"Ungueltige URL">>)
    \o (IF requires_auth(endpoint)
        THEN IF endpoint.auth_type \in {"basic", "digest", "ntlm"}
             THEN IF ~endpoint.username /\ ~endpoint.password
                  THEN <<"erfordert Username und Password">>
                  ELSE <<>>
             ELSE IF endpoint.auth_type = "certificate"
                  THEN IF ~endpoint.cert_path
                       THEN <<"erfordert cert_path">>
                       ELSE <<>>
                  ELSE <<>>
        ELSE <<>>)
    \o (IF endpoint.default_timeout <= 0
        THEN <<"Default Timeout muss groesser als 0 sein">>
        ELSE <<>>)

\* ValidationService.validate_endpoint: the list of errors, in the order the
\* code adds them; is_valid is "no error was added".
validate_endpoint(endpoint) ==
    (IF endpoint.urlValid THEN <<>> ELSE <<"Ungueltige URL">>)
    \o (IF requires_auth(endpoint)
        THEN IF endpoint.auth_type \in {"basic", "digest", "ntlm"}
             THEN IF ~endpoint.username \/ ~endpoint.password
                  THEN <<"erfordert Username und Password">>
                  ELSE <<>>
             ELSE IF endpoint.auth_type = "certificate"
                  THEN IF ~endpoint.cert_path
                       THEN <<"erfordert cert_path">>
                       ELSE <<>>
                  ELSE <<>>
        ELSE <<>>)
    \o (IF endpoint.default_timeout <= 0
        THEN <<"Default Timeout muss groesser als 0 sein">>
        ELSE <<>>)

is_valid(errors) == errors = <<>>

\* Strings are sequences of characters; "a" stands for any non-blank
\* character, " " for any whitespace character.
Chars == {"a", " "}
Strings == UNION {[1..n -> Chars] : n \in 0..MaxActionLen}

\* The values a command's soap_action can hold: a string, or a value that
\* is not a string (None, a number from the playbook).
SoapActionInputs ==
    [isStr : {TRUE}, s : Strings] \cup {[isStr |-> FALSE, s |-> <<>>]}

RECURSIVE lstrip(_)
lstrip(s) == IF s # <<>> /\ Head(s) = " " THEN lstrip(Tail(s)) ELSE s

RECURSIVE rstrip(_)
rstrip(s) ==
    IF s # <<>> /\ s[Len(s)] = " " THEN rstrip(SubSeq(s, 1, Len(s) - 1)) ELSE s

strip(s) == rstrip(lstrip(s))

\* SoapAction.from_string followed by SoapAction.__post_init__: the
\* exception it raises ("none" when it returns) and the action value.
SoapAction_from_string(action_string) ==
    IF ~action_string.isStr
    THEN [exc |-> "AttributeError", value |-> <<>>]
    ELSE LET value == strip(action_string.s) IN
         IF value = <<>>
         THEN [exc |-> "ValueError", value |-> value]
         ELSE IF \E i \in 1..Len(value) : value[i] = " "
              THEN [exc |-> "ValueError", value |-> value]
              ELSE [exc |-> "none", value |-> value]

(***************************************************************************)
(* HTTP transport and repository                                           *)
(***************************************************************************)

StatusCodes == {200, 401, 404, 500}

\* Python's None, and the truth value of an Optional[str].
None == "None"
truthy(value) == value # None /\ value # ""

\* Python's `a or b`.
or(a, b) == IF truthy(a) THEN a ELSE b

\* The text of an XML element (Element.text): None when the element has no
\* text before its first child, " " for whitespace only, or a text.
Texts == {None, " ", "Boom"}

\* str.strip() on these texts.
text_strip(text) == IF text = " " THEN "" ELSE text

\* The element names the classification looks for, with their namespace:
\* soap11 is http://schemas.xmlsoap.org/soap/envelope/, soap12 is
\* http://www.w3.org/2003/05/soap-envelope, no prefix is no namespace.
FaultTags == {"Fault", "soap11:Fault", "soap12:Fault"}
FaultStringTags == {"faultstring", "soap11:faultstring", "soap12:Reason"}

\* A response body, as far as the repository reads it: whether it is
\* well-formed XML, which Fault element it holds below its root (if any) and
\* that element's own text, which fault string element it holds and its text.
Bodies ==
    {body \in [wellformed : BOOLEAN,
               Fault : FaultTags \cup {"absent"}, Fault_text : Texts,
               faultstring : FaultStringTags \cup {"absent"},
               faultstring_text : Texts] :
        /\ body.Fault = "absent" => body.Fault_text = None
        /\ body.faultstring = "absent" => body.faultstring_text = None
        /\ ~body.wellformed =>
               body.Fault = "absent" /\ body.faultstring = "absent"}

\* What HttpClient.post can do: return an HttpResponse, or raise
\* HttpClientError, whose text names the failure.
HttpResponses(codes) ==
    [kind : {"HttpResponse"}, status_code : codes, body : Bodies,
     error : {"none"}]

HttpClientErrors ==
    [kind : {"HttpClientError"}, status_code : {0},
     body : {[wellformed |-> FALSE, Fault |-> "absent", Fault_text |-> None,
              faultstring |-> "absent", faultstring_text |-> None]},
     error : {"timeout", "ssl", "connection", "other"}]

PostOutcomes == HttpResponses(StatusCodes) \cup HttpClientErrors

\* validate_xml that accepts every body.
validate_xml_any(body) == TRUE

\* XmlParser.validate_xml
validate_xml(body) == body.wellformed

\* XmlParser.find_element_text for the element `tag` (default None).
find_element_text(body, tag) ==
    LET text == IF body.Fault = tag THEN body.Fault_text
                ELSE IF body.faultstring = tag THEN body.faultstring_text
                ELSE None
    IN  IF text # None /\ text # "" THEN text_strip(text) ELSE None

\* HttpSoapRepository._contains_soap_fault
contains_soap_fault(body) ==
    IF ~body.wellformed
    THEN FALSE
    ELSE LET fault == or(find_element_text(body, "Fault"),
                         or(find_element_text(body, "soap11:Fault"),
                            find_element_text(body, "soap12:Fault")))
         IN  fault # None

\* HttpSoapRepository._extract_fault_string
extract_fault_string(body) ==
    IF ~body.wellformed
    THEN "SOAP Fault (Details nicht verfuegbar)"
    ELSE LET fault_string ==
                 or(find_element_text(body, "faultstring"),
                    or(find_element_text(body, "soap11:faultstring"),
                       find_element_text(body, "soap12:Reason")))
         IN  or(fault_string, "Unbekannter SOAP Fault")

Response(status, status_code, error_message) ==
    [kind |-> "response", status |-> status, status_code |-> status_code,
     error_message |-> error_message, received_at |-> 0]

Raise(exception) ==
    [kind |-> "raise", status |-> exception, status_code |-> 0,
     error_message |-> None, received_at |-> 0]

\* HttpResponse.is_successful
http_is_successful(http_response) ==
    200 <= http_response.status_code /\ http_response.status_code < 300

\* HttpSoapRepository._create_soap_response
create_soap_response(http_response) ==
    IF http_response.status_code = 401 \/ http_response.status_code = 403
    THEN Response("auth_error", http_response.status_code,
                  "Authentifizierung fehlgeschlagen")
    ELSE IF http_response.status_code = 500
         THEN IF contains_soap_fault(http_response.body)
              THEN Response("soap_fault", http_response.status_code,
                            extract_fault_string(http_response.body))
              ELSE Response("error", http_response.status_code, "Server-Fehler")
         ELSE IF http_is_successful(http_response)
              THEN Response("success", http_response.status_code, None)
              ELSE Response("error", http_response.status_code,
                            "HTTP " \o ToString(http_response.status_code))

\* HttpSoapRepository.send, given what the transport adapter's post did.
send(post) ==
    IF post.kind = "HttpClientError"
    THEN IF post.error \in {"timeout", "ssl", "connection"}
         THEN Raise("EndpointNotReachableError")
         ELSE Raise("SoapRepositoryError")
    ELSE IF ~validate_xml(post.body)
         THEN Raise("InvalidResponseError")
         ELSE create_soap_response(post)

\* Everything a call of the repository's send can end in.
SendOutcomes == {send(post) : post \in PostOutcomes}

\* The exception classes derived from SoapRepositoryError, which
\* `except SoapRepositoryError` catches.
IsSoapRepositoryError(exception) ==
    exception \in {"SoapRepositoryError", "EndpointNotReachableError",
                   "InvalidResponseError", "AuthenticationError"}

\* SoapResponse.is_successful
is_successful(response) ==
    response.status = "success"
    /\ 200 <= response.status_code /\ response.status_code < 300

(***************************************************************************)
(* SoapService                                                             *)
(***************************************************************************)

\* self._cache_ttl = timedelta(minutes=5), in minutes.
cache_ttl == 5

\* What a request is to the cache: the endpoint's URL, the SOAP action and
\* the body content.
Urls == {"http://h/s"}
Actions == {"GetA", "GetB"}
BodyContents == {"<a/>"}
ServiceRequests == [url : Urls, action : Actions, body : BodyContents]

\* SoapService._create_cache_key: the SHA-256 digest of "url:action:body",
\* represented by the string that is hashed.
create_cache_key(url, action, body) == url \o ":" \o action \o ":" \o body

\* is_cache_valid that still accepts an entry of exactly the TTL's age.
is_cache_valid_inclusive(response, clock) ==
    clock - response.received_at <= cache_ttl

\* SoapService._is_cache_valid at time `clock`.
is_cache_valid(response, clock) ==
    clock - response.received_at < cache_ttl

\* SoapResponse.received_at = datetime.now() when the response is built.
stamp(ret, clock) ==
    IF ret.kind = "response" THEN [ret EXCEPT !.received_at = clock] ELSE ret

\* should_store that stores whatever the repository returned.
should_store_any(use_cache, response) == use_cache /\ response.kind = "response"

\* `if use_cache and response.is_successful()` behind the send, which is
\* reached only when send returned a response.
should_store(use_cache, response) ==
    use_cache /\ response.kind = "response" /\ is_successful(response)

\* SoapService.execute_request on a service whose cache is `cache`, at time
\* `clock`: the operation check, the cache lookup, one repository send, the
\* store. Every way the call can end: what it returns or raises, whether the
\* repository was called, and the cache it leaves.
\* (The namespace declarations and custom headers the use case hands over
\* shape the envelope and the headers only, not the control flow.)
service_execute_request(cache, clock, request, operation_supported, use_cache) ==
    IF ~operation_supported
    THEN {[ret |-> Raise("ValueError"), sent |-> FALSE, cache |-> cache]}
    ELSE LET cache_key ==
                 create_cache_key(request.url, request.action, request.body)
         IN  IF /\ use_cache
                /\ cache_key \in DOMAIN cache
                /\ is_cache_valid(cache[cache_key], clock)
             THEN {[ret |-> cache[cache_key], sent |-> FALSE, cache |-> cache]}
             ELSE {LET response == stamp(o, clock) IN
                   [ret |-> response, sent |-> TRUE,
                    cache |-> IF should_store(use_cache, response)
                              THEN (cache_key :> response) @@ cache
                              ELSE cache]
                   : o \in SendOutcomes}

\* SoapService.execute_request as a single call of the orchestrator sees it,
\* on a service that was just built (empty cache): the operation check, then
\* one repository send. `sent` tells whether the repository was called.
execute_request(cmd) ==
    {[ret |-> x.ret, sent |-> x.sent] :
        x \in service_execute_request(<<>>, 0,
                  [url |-> "http://h/s", action |-> "GetA", body |-> "<a/>"],
                  cmd.operation_supported, FALSE)}

\* retry_again with the bound off by one.
retry_again_inclusive(attempt, max_retries) == attempt <= max_retries

\* The retry decision of the except clause, for attempt in range(max_retries + 1).
retry_again(attempt, max_retries) == attempt < max_retries

\* SoapService.execute_request_with_retry from iteration `attempt` on, with
\* `trace` the outcomes of the repository sends made so far. The set of
\* ways the loop can end: what it returns or raises, and the full trace.
RECURSIVE execute_request_with_retry(_, _, _)
execute_request_with_retry(cmd, attempt, trace) ==
    UNION {
        LET t == IF x.sent THEN Append(trace, x.ret) ELSE trace IN
        IF x.ret.kind = "raise" /\ IsSoapRepositoryError(x.ret.status)
        THEN IF retry_again(attempt, cmd.max_retries)
             THEN execute_request_with_retry(cmd, attempt + 1, t)
             ELSE {[ret |-> Raise("SoapRepositoryError"), trace |-> t]}
        ELSE {[ret |-> x.ret, trace |-> t]}
        : x \in execute_request(cmd)}

(***************************************************************************)
(* SendSoapRequestUseCase                                                  *)
(***************************************************************************)

Commands ==
    [endpoint : Endpoints,
     soap_action : SoapActionInputs,
     validate_response : BOOLEAN,
     operation_supported : BOOLEAN,
     max_retries : 0..MaxRetries,
     extract_xpath : BOOLEAN]

NoResponse ==
    [kind |-> "none", status |-> "none", status_code |-> 0, error_message |-> None,
     received_at |-> 0]

\* A SendSoapRequestResult, or (raised # "none") the exception that left
\* execute. trace lists the repository sends the call made.
Result(success, response, validation_errors, error_message, raised, trace) ==
    [success |-> success, response |-> response, extracted_data |-> None,
     validation_errors |-> validation_errors, error_message |-> error_message,
     raised |-> raised, trace |-> trace]

\* Step 1 of execute: is the request turned down by endpoint validation?
endpoint_rejected(cmd) ==
    cmd.validate_response /\ ~is_valid(validate_endpoint(cmd.endpoint))

\* The ways execute_request_with_retry can end, for each command that takes
\* the retry loop (the loop depends on nothing else).
retry_loop ==
    [cmd \in [operation_supported : BOOLEAN, max_retries : 1..MaxRetries] |->
        execute_request_with_retry(cmd, 0, <<>>)]

\* Step 3 of execute on an orchestrator whose service holds `cache`, at time
\* `clock`: with max_retries > 0 the retry loop, which calls execute_request
\* without use_cache (so neither reads nor writes the cache), otherwise
\* execute_request with the command's use_cache.
service_dispatch(cache, clock, request, operation_supported, use_cache, max_retries) ==
    IF max_retries > 0
    THEN {[ret |-> stamp(d.ret, clock),
           trace |-> [j \in 1..Len(d.trace) |-> stamp(d.trace[j], clock)],
           cache |-> cache]
          : d \in retry_loop[[operation_supported |-> operation_supported,
                              max_retries |-> max_retries]]}
    ELSE {[ret |-> x.ret, trace |-> IF x.sent THEN <<x.ret>> ELSE <<>>,
           cache |-> x.cache]
          : x \in service_execute_request(cache, clock, request,
                                          operation_supported, use_cache)}

\* Step 3 of execute for a single call on an orchestrator that was just
\* built (empty cache, so use_cache makes no difference to the call).
dispatch(cmd) ==
    {[ret |-> d.ret, trace |-> d.trace]
     : d \in service_dispatch(<<>>, 0,
                 [url |-> "http://h/s", action |-> "GetA", body |-> "<a/>"],
                 cmd.operation_supported, FALSE, cmd.max_retries)}

\* should_extract that does not look at the response.
should_extract_any(extract_xpath, response) == extract_xpath

\* `if command.extract_xpath and response.is_successful()`
should_extract(extract_xpath, response) ==
    extract_xpath /\ is_successful(response)

\* Step 4 of execute: None when nothing is extracted, otherwise what
\* transform_response returned ("data") or the payload built when it raised.
extract(extract_xpath, response) ==
    IF should_extract(extract_xpath, response)
    THEN {"data", "extraction_error"}
    ELSE {None}

\* Steps 3 to 5 of execute, from the end of the dispatch d on: the failed
\* result of the except clause, or the results built from the response.
result_of(d, extract_xpath) ==
    IF d.ret.kind = "raise"
    THEN {Result(FALSE, NoResponse, <<>>, "Request fehlgeschlagen", "none", d.trace)}
    ELSE {[Result(is_successful(d.ret), d.ret, <<>>,
                  IF is_successful(d.ret) THEN "none" ELSE d.ret.status,
                  "none", d.trace)
           EXCEPT !.extracted_data = extracted_data]
          : extracted_data \in extract(extract_xpath, d.ret)}

\* dict.update: the keys of `other` replace those of `dict`.
update(dict, other) == other @@ dict

\* SoapResponse.to_ansible_result, with the keys that tell how the request
\* went (request_id, response_time_ms, body, msg, fault and error left out).
to_ansible_result(response) ==
    LET base == [changed |-> FALSE,
                   status |-> response.status,
                   status_code |-> response.status_code,
                   success |-> is_successful(response)]
    IN  IF is_successful(response)
        THEN base
        ELSE update(base, [failed |-> TRUE])

\* SendSoapRequestResult.to_dict: the entry of a request in the `results`
\* list a batch hands back (BatchSendResult.to_dict).
to_dict(r) ==
    LET base == [success |-> r.success, changed |-> r.success]
        with_response ==
            IF r.response # NoResponse
            THEN update(base, to_ansible_result(r.response))
            ELSE base
        with_data ==
            IF truthy(r.extracted_data)
            THEN update(with_response, [extracted_data |-> r.extracted_data])
            ELSE with_response
        with_errors ==
            IF r.validation_errors # <<>>
            THEN update(with_data, [validation_errors |-> r.validation_errors])
            ELSE with_data
    IN  IF r.error_message # "none"
        THEN update(with_errors, [error_message |-> r.error_message])
        ELSE with_errors

\* DtoMapper.result_to_dto followed by SoapResponseDTO.to_dict (headers,
\* body and response_time_ms left out).
result_to_dto_dict(r) ==
    LET dto == IF r.response # NoResponse
               THEN [success |-> r.success,
                     status_code |-> r.response.status_code]
               ELSE [success |-> FALSE, status_code |-> 0]
        with_data ==
            IF r.response # NoResponse /\ truthy(r.extracted_data)
            THEN update(dto, [extracted_data |-> r.extracted_data])
            ELSE dto
        error_message ==
            IF r.error_message # "none" THEN r.error_message
            ELSE IF r.response # NoResponse THEN None ELSE "Unknown error"
    IN  IF truthy(error_message)
        THEN update(with_data, [error_message |-> error_message])
        ELSE with_data

\* run_module of soap_request: the mapping given to exit_json or fail_json
\* once the orchestrator has returned r.
soap_request_result(r) ==
    update(update([changed |-> FALSE], result_to_dto_dict(r)),
           [changed |-> r.success])

\* SendSoapRequestUseCase.execute: every result the call can produce for cmd.
execute(cmd) ==
    IF endpoint_rejected(cmd)
    THEN {Result(FALSE, NoResponse, validate_endpoint(cmd.endpoint),
                 "Endpoint-Validierung fehlgeschlagen", "none", <<>>)}
    ELSE LET action == SoapAction_from_string(cmd.soap_action) IN
         IF action.exc = "ValueError"
         THEN {Result(FALSE, NoResponse, <<>>, "Ungueltige SOAP Action", "none", <<>>)}
         ELSE IF action.exc # "none"
              THEN {Result(FALSE, NoResponse, <<>>, "none", action.exc, <<>>)}
              ELSE UNION {result_of(d, cmd.extract_xpath) : d \in dispatch(cmd)}

NoResult == Result(FALSE, NoResponse, <<>>, "none", "none", <<>>)

NoCommand ==
    [endpoint |-> [urlValid |-> TRUE, auth_type |-> "none", username |-> FALSE,
                   password |-> FALSE, cert_path |-> FALSE, default_timeout |-> 30],
     soap_action |-> [isStr |-> TRUE, s |-> <<"a">>],
     validate_response |-> TRUE,
     operation_supported |-> TRUE,
     max_retries |-> 0,
     extract_xpath |-> FALSE]

\* How a call of SendSoapRequestUseCase.execute ends, as its caller sees it:
\* a result with success=true, a result with success=false, or an exception.
Outcome(r) ==
    IF r.raised # "none" THEN "raise" ELSE IF r.success THEN "ok" ELSE "fail"

ExecuteOutcomes == {Outcome(r) : r \in UNION {execute(cmd) : cmd \in Commands}}

(***************************************************************************)
(* SpecSend: one call of SendSoapRequestUseCase.execute                    *)
(***************************************************************************)

\* The values of the variables of a specification that is not running.
SendIdle ==
    /\ upc = "idle"
    /\ command = NoCommand
    /\ result = NoResult

ClassifyIdle ==
    /\ http = [kind |-> "none"]
    /\ reply = NoResponse
    /\ cpc = "idle"

\* No dispatch was made yet.
NoCall ==
    [request |-> [url |-> "http://h/s", action |-> "GetA", body |-> "<a/>"],
     operation_supported |-> TRUE, use_cache |-> FALSE, max_retries |-> 0,
     ret |-> NoResponse, sends |-> 0]

CacheIdle ==
    /\ request_cache = <<>>
    /\ now = 0
    /\ succeeded = <<>>
    /\ call = NoCall

\* The ids a SoapRequest can carry: a UUID by default, or the string the
\* caller gave, which nothing keeps from being empty.
RequestIds == {"", "r1", "r2"}

\* The answer of get_response for an id that has no entry.
NoAsyncResponse ==
    [request_id |-> None, status |-> "none", status_code |-> 0,
     error_message |-> None]

\* No soap_validate run.
ValidateIdle ==
    /\ vparams = "none"
    /\ vpc = "idle"
    /\ validation = [is_valid |-> FALSE, is_reachable |-> FALSE,
                     has_wsdl |-> FALSE, error_message |-> None]
    /\ vresult = [is_valid |-> FALSE, reachable |-> FALSE, msg |-> ""]

\* No DTO under validation.
InputIdle ==
    /\ request_dto = "none"
    /\ dpc = "idle"
    /\ dto_valid = [ok |-> FALSE, message |-> None]
    /\ mapped = [raised |-> None, endpoint_url |-> None, timeout |-> 0,
                 custom_headers |-> None, body_content |-> None]

\* No Endpoint under construction.
EndpointIdle ==
    /\ eargs = "none"
    /\ endpoint_entity = [state |-> "idle", error |-> None]

\* No SoapEnvelope under construction.
EnvelopeIdle ==
    /\ envelope = "none"
    /\ built = [state |-> "idle", doc |-> <<>>]

\* No from_dict call.
XmlBodyIdle ==
    /\ xdata = "none"
    /\ xbody = [state |-> "idle", parses |-> FALSE, root |-> <<>>]

\* No soap_batch run.
BatchInputIdle ==
    /\ batch_in = "none"
    /\ bpc = "idle"
    /\ request_dtos = <<>>
    /\ commands = <<>>
    /\ dispatched = <<>>
    /\ bexit = "none"

\* No execute_request call on the service whose keys are followed.
CacheKeyIdle ==
    /\ key_cache = <<>>
    /\ key_origin = <<>>
    /\ key_call = [hit |-> FALSE,
                   request |-> [url |-> "", action |-> "", body |-> ""],
                   origin |-> [url |-> "", action |-> "", body |-> ""]]

\* No HttpClient.
SessionIdle ==
    /\ session = 0
    /\ sessions_created = 0
    /\ sessions_closed = {}
    /\ epoch_sessions = {}
    /\ tpc = <<>>
    /\ local_session = <<>>
    /\ posts = 0
    /\ closes = 0

ExtIdle ==
    /\ ValidateIdle
    /\ InputIdle
    /\ EndpointIdle
    /\ EnvelopeIdle
    /\ XmlBodyIdle
    /\ BatchInputIdle
    /\ CacheKeyIdle
    /\ SessionIdle

AsyncIdle ==
    /\ async_responses = <<>>
    /\ started = [id \in RequestIds |-> 0]
    /\ running = [id \in RequestIds |-> 0]
    /\ polled = [request_id |-> "r1", response |-> NoAsyncResponse]

ModuleIdle ==
    /\ params = [module |-> "none"]
    /\ mpc = "idle"
    /\ checked = 0
    /\ repository = "none"
    /\ uc_outcome = "none"
    /\ exit_call = "none"

BatchIdle ==
    /\ parallel = FALSE
    /\ max_workers = 1
    /\ stop_on_error = FALSE
    /\ total = 0
    /\ pc = "idle"
    /\ futures = <<>>
    /\ outcome = <<>>
    /\ executions = <<>>
    /\ results = <<>>
    /\ successful = 0
    /\ failed = 0
    /\ index = 1
    /\ yielded = {}
    /\ firstFailure = [seen |-> FALSE, notStarted |-> {}]

CoreIdle ==
    /\ BatchIdle
    /\ SendIdle
    /\ ClassifyIdle
    /\ CacheIdle
    /\ ModuleIdle
    /\ AsyncIdle

InitSend ==
    /\ BatchIdle
    /\ ClassifyIdle
    /\ CacheIdle
    /\ ModuleIdle
    /\ AsyncIdle
    /\ ExtIdle
    /\ upc = "ready"
    /\ command \in Commands
    /\ result = NoResult

UseCaseExecute ==
    /\ upc = "ready"
    /\ \E r \in execute(command) : result' = r
    /\ upc' = "returned"
    /\ UNCHANGED command
    /\ UNCHANGED notSendVars

NextSend == UseCaseExecute

SpecSend == InitSend /\ [][NextSend]_vars

(***************************************************************************)
(* Spec: BatchSendUseCase                                                  *)
(***************************************************************************)

Requests == 1..total

Init ==
    /\ parallel \in BOOLEAN
    /\ max_workers \in 1..MaxWorkers
    /\ stop_on_error \in BOOLEAN
    /\ total \in 0..MaxRequests
    /\ pc = "start"
    /\ futures = [i \in Requests |-> "unsubmitted"]
    /\ outcome = [i \in Requests |-> "none"]
    /\ executions = [i \in Requests |-> 0]
    /\ results = <<>>
    /\ successful = 0
    /\ failed = 0
    /\ index = 1
    /\ yielded = {}
    /\ firstFailure = [seen |-> FALSE, notStarted |-> {}]
    /\ SendIdle
    /\ ClassifyIdle
    /\ CacheIdle
    /\ ModuleIdle
    /\ AsyncIdle
    /\ ExtIdle

\* The entry appended to `results` for request i: the result execute
\* returned, or the result built from an exception (parallel mode).
Entry(i, o) == [request |-> i, success |-> o = "ok", exception |-> o = "raise"]

\* Tally that forgets `failed += 1` for a result built from an exception.
Tally_lost_failure(entry) ==
    [results |-> Append(results, entry),
     successful |-> IF entry.success THEN successful + 1 ELSE successful,
     failed |-> IF entry.success \/ entry.exception THEN failed ELSE failed + 1]

\* results.append(...) and the update of the two counters.
Tally(entry) ==
    [results |-> Append(results, entry),
     successful |-> IF entry.success THEN successful + 1 ELSE successful,
     failed |-> IF entry.success THEN failed ELSE failed + 1]

\* should_stop that never breaks.
should_stop_never(entry) == FALSE

\* should_stop that breaks on every failure, whatever stop_on_error says.
should_stop_any(entry) == ~entry.success

\* `if command.stop_on_error: break` in the branch of a failed result.
should_stop(entry) == ~entry.success /\ stop_on_error

\* BatchSendUseCase.execute: choose the mode.
BatchExecute ==
    /\ pc = "start"
    /\ pc' = IF parallel THEN "submit" ELSE "sequential"
    /\ UNCHANGED <<parallel, max_workers, stop_on_error, total, futures, outcome,
                   executions, results, successful, failed, index, yielded,
                   firstFailure>>
    /\ UNCHANGED notBatchVars

\* One iteration of the for loop of _execute_sequential. An exception that
\* leaves the use case's execute is not caught here: it leaves the batch.
SequentialIterate ==
    /\ pc = "sequential"
    /\ index <= total
    /\ \E o \in ExecuteOutcomes :
        /\ executions' = [executions EXCEPT ![index] = @ + 1]
        /\ futures' = [futures EXCEPT ![index] = "finished"]
        /\ outcome' = [outcome EXCEPT ![index] = o]
        /\ IF o = "raise"
           THEN /\ pc' = "raised"
                /\ UNCHANGED <<results, successful, failed, index>>
           ELSE LET t == Tally(Entry(index, o)) IN
                /\ results' = t.results
                /\ successful' = t.successful
                /\ failed' = t.failed
                /\ IF should_stop(Entry(index, o))
                   THEN pc' = "done" /\ UNCHANGED index
                   ELSE pc' = pc /\ index' = index + 1
    /\ UNCHANGED <<parallel, max_workers, stop_on_error, total, yielded, firstFailure>>
    /\ UNCHANGED notBatchVars

\* The loop is exhausted: return the BatchSendResult.
SequentialReturn ==
    /\ pc = "sequential"
    /\ index > total
    /\ pc' = "done"
    /\ UNCHANGED <<parallel, max_workers, stop_on_error, total, futures, outcome,
                   executions, results, successful, failed, index, yielded,
                   firstFailure>>
    /\ UNCHANGED notBatchVars

\* executor.submit for the next request of the dict comprehension.
Submit ==
    /\ pc = "submit"
    /\ index <= total
    /\ futures' = [futures EXCEPT ![index] = "pending"]
    /\ index' = index + 1
    /\ UNCHANGED <<parallel, max_workers, stop_on_error, total, pc, outcome,
                   executions, results, successful, failed, yielded, firstFailure>>
    /\ UNCHANGED notBatchVars

\* All requests are submitted: enter the as_completed loop.
SubmitDone ==
    /\ pc = "submit"
    /\ index > total
    /\ pc' = "collect"
    /\ UNCHANGED <<parallel, max_workers, stop_on_error, total, futures, outcome,
                   executions, results, successful, failed, index, yielded,
                   firstFailure>>
    /\ UNCHANGED notBatchVars

Running == {i \in Requests : futures[i] = "running"}

\* worker_available with the bound off by one.
worker_available_inclusive == Cardinality(Running) <= max_workers

\* ThreadPoolExecutor(max_workers=...): a worker thread is free.
worker_available == Cardinality(Running) < max_workers

\* A worker takes the next work item of the queue (submission order) and
\* starts the use case's execute for it. Cancelled items are skipped.
StartTask(i) ==
    /\ pc \in {"submit", "collect", "cancel", "shutdown"}
    /\ futures[i] = "pending"
    /\ \A j \in Requests : j < i => futures[j] # "pending"
    /\ worker_available
    /\ futures' = [futures EXCEPT ![i] = "running"]
    /\ executions' = [executions EXCEPT ![i] = @ + 1]
    /\ UNCHANGED <<parallel, max_workers, stop_on_error, total, pc, outcome,
                   results, successful, failed, index, yielded, firstFailure>>
    /\ UNCHANGED notBatchVars

\* The use case's execute ends in a worker: the future holds its result or
\* its exception.
FinishTask(i) ==
    /\ futures[i] = "running"
    /\ \E o \in ExecuteOutcomes : outcome' = [outcome EXCEPT ![i] = o]
    /\ futures' = [futures EXCEPT ![i] = "finished"]
    /\ UNCHANGED <<parallel, max_workers, stop_on_error, total, pc, executions,
                   results, successful, failed, index, yielded, firstFailure>>
    /\ UNCHANGED notBatchVars

\* One iteration of `for future in as_completed(...)`: future.result()
\* returns the result, or raises and the except branch builds a failed one.
Collect(i) ==
    /\ pc = "collect"
    /\ futures[i] = "finished"
    /\ i \notin yielded
    /\ LET e == Entry(i, outcome[i])
           t == Tally(e) IN
        /\ results' = t.results
        /\ successful' = t.successful
        /\ failed' = t.failed
        /\ IF ~e.exception /\ should_stop(e)
           THEN pc' = "cancel" /\ index' = 1
           ELSE UNCHANGED <<pc, index>>
        /\ firstFailure' =
             IF ~e.success /\ ~firstFailure.seen
             THEN [seen |-> TRUE,
                   notStarted |-> {j \in Requests : futures[j] = "pending"}]
             ELSE firstFailure
    /\ yielded' = yielded \cup {i}
    /\ UNCHANGED <<parallel, max_workers, stop_on_error, total, futures, outcome,
                   executions>>
    /\ UNCHANGED notBatchVars

\* as_completed is exhausted: leave the loop.
CollectDone ==
    /\ pc = "collect"
    /\ yielded = Requests
    /\ pc' = "shutdown"
    /\ UNCHANGED <<parallel, max_workers, stop_on_error, total, futures, outcome,
                   executions, results, successful, failed, index, yielded,
                   firstFailure>>
    /\ UNCHANGED notBatchVars

\* cancel that leaves the future as it is.
cancel_noop(state) == state

\* Future.cancel(): only a future that has not started is cancelled.
cancel(state) == IF state = "pending" THEN "cancelled" ELSE state

\* One iteration of `for f in future_to_command: f.cancel()`.
CancelNext ==
    /\ pc = "cancel"
    /\ index <= total
    /\ futures' = [futures EXCEPT ![index] = cancel(@)]
    /\ index' = index + 1
    /\ UNCHANGED <<parallel, max_workers, stop_on_error, total, pc, outcome,
                   executions, results, successful, failed, yielded, firstFailure>>
    /\ UNCHANGED notBatchVars

\* The cancel loop is over: break out of the as_completed loop.
CancelDone ==
    /\ pc = "cancel"
    /\ index > total
    /\ pc' = "shutdown"
    /\ UNCHANGED <<parallel, max_workers, stop_on_error, total, futures, outcome,
                   executions, results, successful, failed, index, yielded,
                   firstFailure>>
    /\ UNCHANGED notBatchVars

\* Leaving the with block waits for the workers (shutdown(wait=True)), then
\* the BatchSendResult is returned.
ParallelReturn ==
    /\ pc = "shutdown"
    /\ \A i \in Requests : futures[i] \notin {"pending", "running"}
    /\ pc' = "done"
    /\ UNCHANGED <<parallel, max_workers, stop_on_error, total, futures, outcome,
                   executions, results, successful, failed, index, yielded,
                   firstFailure>>
    /\ UNCHANGED notBatchVars

Next ==
    \/ BatchExecute
    \/ SequentialIterate
    \/ SequentialReturn
    \/ Submit
    \/ SubmitDone
    \/ \E i \in Requests : StartTask(i)
    \/ \E i \in Requests : FinishTask(i)
    \/ \E i \in Requests : Collect(i)
    \/ CollectDone
    \/ CancelNext
    \/ CancelDone
    \/ ParallelReturn

Spec == Init /\ [][Next]_vars

(***************************************************************************)
(* Properties of the batch orchestrator (checked under Spec)               *)
(***************************************************************************)

EntriesOf(i) == {j \in 1..Len(results) : results[j].request = i}

Succeeded == {i \in Requests : outcome[i] = "ok"}
NotSucceeded == {i \in Requests : outcome[i] \in {"fail", "raise"}}

\* C1: in every state of every batch run, hence in every returned
\* BatchSendResult, successful + failed = len(results) <= total, and total
\* is the number of requests.
C1_CountInvariant ==
    /\ successful + failed = Len(results)
    /\ Len(results) <= total
    /\ total = Len(futures)

\* A parallel batch has returned with a success, a failure and a result
\* built from an escaped exception among its results.
C1_Witness ==
    /\ pc = "done"
    /\ parallel
    /\ \E a, b, c \in 1..Len(results) :
        /\ results[a].success
        /\ ~results[b].success /\ ~results[b].exception
        /\ results[c].exception

\* C2: sequential mode with stop_on_error=true. If request k is the first
\* that does not succeed and it returns a failed result, then the batch has
\* returned, results is the outcomes of requests 1..k in order, failed = 1,
\* successful = k - 1 (the k of the claim counts from 0), and no request
\* after k is ever dispatched.
C2_SequentialStopsAtFirstFailure ==
    (~parallel /\ stop_on_error) =>
        \A k \in Requests :
            (outcome[k] = "fail" /\ \A j \in 1..(k - 1) : outcome[j] = "ok") =>
                /\ pc = "done"
                /\ Len(results) = k
                /\ \A j \in 1..k :
                    /\ results[j].request = j
                    /\ results[j].success = (outcome[j] = "ok")
                /\ failed = 1
                /\ successful = k - 1
                /\ \A j \in Requests :
                    j > k => executions[j] = 0 /\ futures[j] = "unsubmitted"

\* The second of three requests failed and the batch stopped there.
C2_Witness ==
    /\ ~parallel /\ stop_on_error
    /\ total >= 3
    /\ pc = "done"
    /\ outcome[1] = "ok" /\ outcome[2] = "fail"
    /\ Len(results) = 2

\* C3 as stated: in sequential mode with stop_on_error=false, when the batch
\* run has ended every request was executed exactly once, results[i] is the
\* outcome of request i, and len(results) = total.
C3_SequentialRunsAll ==
    (~parallel /\ ~stop_on_error /\ pc \in {"done", "raised"}) =>
        /\ Len(results) = total
        /\ \A i \in Requests :
            /\ executions[i] = 1
            /\ results[i].request = i
            /\ results[i].success = (outcome[i] = "ok")

\* C4 as stated: an exception that leaves the execution of a request never
\* leaves the batch; once the batch has taken note of the request's end, a
\* failed entry for it is in results.
C4_ExceptionBecomesFailedEntry ==
    /\ pc # "raised"
    /\ \A i \in Requests :
        (outcome[i] = "raise" /\ (parallel => i \in yielded)) =>
            \E j \in EntriesOf(i) : ~results[j].success

C6_ParallelRunsAll ==
    (parallel /\ ~stop_on_error) =>
        /\ \A i \in Requests :
            /\ executions[i] <= 1
            /\ Cardinality(EntriesOf(i)) <= 1
            /\ \A j \in EntriesOf(i) : results[j].success = (outcome[i] = "ok")
        /\ pc = "done" =>
            /\ \A i \in Requests :
                executions[i] = 1 /\ Cardinality(EntriesOf(i)) = 1
            /\ Len(results) = total
            /\ successful = Cardinality(Succeeded)
            /\ failed = Cardinality(NotSucceeded)

\* Three requests ran in parallel, finished out of submission order with
\* successes and failures, and the batch returned.
C6_Witness ==
    /\ parallel /\ ~stop_on_error
    /\ pc = "done"
    /\ total >= 3
    /\ results[1].request # 1
    /\ successful >= 1 /\ failed >= 1

\* C7: in parallel mode at most max_workers requests are being executed at
\* any moment.
C7_BoundedWorkers ==
    parallel => Cardinality(Running) <= max_workers

\* All workers are busy while a submitted request waits for one.
C7_Witness ==
    /\ parallel
    /\ max_workers >= 2
    /\ Cardinality(Running) = max_workers
    /\ \E i \in Requests : futures[i] = "pending"

\* C28 as stated: when the batch has returned, every request whose execution
\* was started has an entry in results, and the two counters account for
\* every started request, in both modes and with or without stop_on_error.
C28_StartedHasEntry ==
    pc = "done" =>
        /\ \A i \in Requests : executions[i] > 0 => EntriesOf(i) # {}
        /\ successful + failed = Cardinality({i \in Requests : executions[i] > 0})

(***************************************************************************)
(* Properties of the single-request orchestrator (checked under SpecSend)  *)
(***************************************************************************)

\* The endpoint does not satisfy the rules of endpoint validation.
EndpointInvalid(endpoint) ==
    \/ ~endpoint.urlValid
    \/ endpoint.auth_type = "basic" /\ ~(endpoint.username /\ endpoint.password)
    \/ endpoint.auth_type = "certificate" /\ ~endpoint.cert_path
    \/ endpoint.default_timeout <= 0

\* C8: when validation is enabled and the endpoint is invalid, execute
\* returns success=false with the validation errors and never calls the
\* repository's send.
C8_InvalidEndpointNeverSent ==
    (upc = "returned" /\ command.validate_response
     /\ EndpointInvalid(command.endpoint)) =>
        /\ result.raised = "none"
        /\ ~result.success
        /\ result.validation_errors # <<>>
        /\ result.trace = <<>>
        /\ result.response = NoResponse

\* Basic auth with a username but no password, everything else in order.
C8_Witness ==
    /\ upc = "returned"
    /\ command.validate_response
    /\ command.endpoint.auth_type = "basic"
    /\ command.endpoint.username /\ ~command.endpoint.password
    /\ command.endpoint.urlValid /\ command.endpoint.default_timeout > 0
    /\ SoapAction_from_string(command.soap_action).exc = "none"
    /\ command.operation_supported
    /\ result.validation_errors = <<"erfordert Username und Password">>
    /\ result.trace = <<>>

\* C9: with max_retries = N > 0 the repository is asked at most N + 1 times,
\* every send but the last ended in a SoapRepositoryError, and a response
\* from the repository ends the loop and is the response of the result.
C9_RetryBounded ==
    (upc = "returned" /\ command.max_retries > 0) =>
        /\ Len(result.trace) <= command.max_retries + 1
        /\ \A j \in 1..Len(result.trace) :
            /\ j < Len(result.trace) =>
                /\ result.trace[j].kind = "raise"
                /\ result.trace[j].status \in
                       {"SoapRepositoryError", "EndpointNotReachableError",
                        "InvalidResponseError"}
            /\ result.trace[j].kind = "response" =>
                /\ j = Len(result.trace)
                /\ result.response = result.trace[j]

\* Every try was used: N sends failed, the last one brought a SOAP fault,
\* which was returned.
C9_Witness ==
    /\ upc = "returned"
    /\ command.max_retries >= 2
    /\ Len(result.trace) = command.max_retries + 1
    /\ result.trace[1].status = "EndpointNotReachableError"
    /\ result.response.status = "soap_fault"
    /\ ~result.success

\* C10 as stated: a send that received an HTTP response with a body that is
\* not well-formed XML is not followed by another send.
C10_ParsingErrorNotRetried ==
    upc = "returned" =>
        \A j \in 1..Len(result.trace) :
            result.trace[j].status = "InvalidResponseError" => j = Len(result.trace)

\* C17: the success flag of a result built from a response is the
\* response's own success (status success and 2xx), whatever extraction did:
\* when extraction raises on a successful response the result has
\* success=true and extracted_data holds the extraction_error payload; for an
\* unsuccessful response, or without extract_xpath, nothing is extracted.
C17_SuccessIndependentOfExtraction ==
    (upc = "returned" /\ result.response.kind = "response") =>
        /\ result.success =
             (/\ result.response.status = "success"
              /\ 200 <= result.response.status_code
              /\ result.response.status_code < 300)
        /\ result.extracted_data = "extraction_error" => result.success
        /\ (~result.success \/ ~command.extract_xpath) =>
               result.extracted_data = None
        /\ (result.success /\ command.extract_xpath) =>
               result.extracted_data \in {"data", "extraction_error"}

\* C18 as stated: every result mapping handed back for a request, the
\* result of the single-request module and the entry of the request in a
\* batch's results, has changed = true when the request succeeded and
\* changed = false when it failed.
C18_ChangedMirrorsSuccess ==
    (upc = "returned" /\ result.raised = "none") =>
        /\ soap_request_result(result)["changed"] = result.success
        /\ to_dict(result)["changed"] = result.success

\* Extraction raised on a successful response that came after a retry.
C17_Witness ==
    /\ upc = "returned"
    /\ command.extract_xpath
    /\ command.max_retries > 0
    /\ Len(result.trace) = 2
    /\ result.response.status = "success"
    /\ result.success
    /\ result.extracted_data = "extraction_error"

(***************************************************************************)
(* SpecClassify: one dispatch without retry, from the transport's answer   *)
(* to the orchestrator's result                                            *)
(***************************************************************************)

\* The status codes the classification is checked for.
ClassifierStatusCodes == {100, 200, 204, 299, 300, 401, 403, 404, 500, 503}

InitClassify ==
    /\ BatchIdle
    /\ SendIdle
    /\ CacheIdle
    /\ ModuleIdle
    /\ AsyncIdle
    /\ ExtIdle
    /\ http \in HttpResponses(ClassifierStatusCodes) \cup HttpClientErrors
    /\ reply = NoResponse
    /\ cpc = "ready"

\* HttpSoapRepository.send returns or raises.
RepositorySend ==
    /\ cpc = "ready"
    /\ reply' = send(http)
    /\ cpc' = "sent"
    /\ UNCHANGED <<http, result>>
    /\ UNCHANGED notClassifyVars

\* The orchestrator builds its result from what the dispatch returned or
\* raised (max_retries = 0, nothing to extract).
UseCaseResult ==
    /\ cpc = "sent"
    /\ result' \in result_of([ret |-> reply, trace |-> <<reply>>], FALSE)
    /\ cpc' = "returned"
    /\ UNCHANGED <<http, reply>>
    /\ UNCHANGED notClassifyVars

NextClassify == RepositorySend \/ UseCaseResult

SpecClassify == InitClassify /\ [][NextClassify]_vars

(***************************************************************************)
(* Properties of the classification (checked under SpecClassify)           *)
(***************************************************************************)

\* C11: whatever the HTTP status code, a response whose body is not
\* well-formed XML makes send raise InvalidResponseError: no SoapResponse
\* is produced for it, and the orchestrator's result has success=false and
\* no response.
C11_MalformedNeverSuccess ==
    (http.kind = "HttpResponse" /\ ~http.body.wellformed) =>
        /\ cpc \in {"sent", "returned"} => reply = Raise("InvalidResponseError")
        /\ cpc = "returned" =>
            /\ ~result.success
            /\ result.response = NoResponse
            /\ result.error_message = "Request fehlgeschlagen"
            /\ result.raised = "none"

\* HTTP 200 with a body that is not well-formed, through to the result.
C11_Witness ==
    /\ cpc = "returned"
    /\ http.kind = "HttpResponse"
    /\ http.status_code = 200
    /\ ~http.body.wellformed
    /\ reply = Raise("InvalidResponseError")
    /\ ~result.success

\* The body holds a Fault element (of SOAP 1.1, of SOAP 1.2 or unqualified).
HasFaultElement(body) == body.Fault \in FaultTags

\* C12 as stated: for a well-formed body the response is classified by the
\* decision table, in order: 401 or 403 gives auth_error; 500 with a Fault
\* element gives soap_fault; 500 without one gives error; 200 <= code < 300
\* gives success; any other code gives error with the message "HTTP <code>".
\* Success is returned only for 2xx codes.
C12_DecisionTable ==
    (cpc \in {"sent", "returned"} /\ http.kind = "HttpResponse"
     /\ http.body.wellformed) =>
        /\ reply.kind = "response"
        /\ reply.status_code = http.status_code
        /\ reply.status =
             IF http.status_code \in {401, 403} THEN "auth_error"
             ELSE IF http.status_code = 500
                  THEN IF HasFaultElement(http.body) THEN "soap_fault" ELSE "error"
                  ELSE IF 200 <= http.status_code /\ http.status_code < 300
                       THEN "success"
                       ELSE "error"
        /\ (reply.status = "error" /\ http.status_code # 500) =>
               reply.error_message = "HTTP " \o ToString(http.status_code)
        /\ reply.status = "success" =>
               (200 <= http.status_code /\ http.status_code < 300)

\* C13 as stated: an HTTP 500 response whose body holds a SOAP Fault element
\* is classified soap_fault, and its fault string is the text of the
\* faultstring or Reason child when there is one.
C13_FaultClassified ==
    (cpc \in {"sent", "returned"} /\ http.kind = "HttpResponse"
     /\ http.body.wellformed /\ http.status_code = 500
     /\ HasFaultElement(http.body)) =>
        /\ reply.kind = "response"
        /\ reply.status = "soap_fault"
        /\ http.body.faultstring_text = "Boom" => reply.error_message = "Boom"

(***************************************************************************)
(* SpecCache: the dispatches of one orchestrator over time (one            *)
(* SoapService, one cache), as a batch makes them one after the other      *)
(***************************************************************************)

InitCache ==
    /\ BatchIdle
    /\ SendIdle
    /\ ClassifyIdle
    /\ ModuleIdle
    /\ AsyncIdle
    /\ ExtIdle
    /\ request_cache = <<>>
    /\ now = 0
    /\ succeeded = <<>>
    /\ call = NoCall

\* A minute passes.
Tick ==
    /\ now < MaxClock
    /\ now' = now + 1
    /\ UNCHANGED <<request_cache, succeeded, call>>
    /\ UNCHANGED notCacheVars

\* Step 3 of SendSoapRequestUseCase.execute for one command. `succeeded`
\* notes the response when execute_request was called with use_cache, sent
\* the request and got a successful response.
ServiceDispatch ==
    /\ \E request \in ServiceRequests, operation_supported \in BOOLEAN,
          use_cache \in BOOLEAN, max_retries \in 0..MaxRetries :
         \E d \in {[ret |-> x.ret, sends |-> Len(x.trace), cache |-> x.cache] :
                      x \in service_dispatch(request_cache, now, request,
                                operation_supported, use_cache, max_retries)} :
            /\ call' = [request |-> request,
                        operation_supported |-> operation_supported,
                        use_cache |-> use_cache, max_retries |-> max_retries,
                        ret |-> d.ret, sends |-> d.sends]
            /\ request_cache' = d.cache
            /\ succeeded' =
                 IF /\ use_cache /\ max_retries = 0
                    /\ d.sends > 0
                    /\ d.ret.kind = "response" /\ d.ret.status = "success"
                 THEN (create_cache_key(request.url, request.action, request.body)
                         :> d.ret) @@ succeeded
                 ELSE succeeded
    /\ UNCHANGED now
    /\ UNCHANGED notCacheVars

NextCache == Tick \/ ServiceDispatch

SpecCache == InitCache /\ [][NextCache]_vars

(***************************************************************************)
(* Properties of the response cache (checked under SpecCache)              *)
(***************************************************************************)

CallKey(c) == create_cache_key(c.request.url, c.request.action, c.request.body)

\* C14: every entry of the response cache is a response with status success
\* and a 2xx status code; a failed, faulted or error response is never stored.
C14_OnlySuccessCached ==
    \A key \in DOMAIN request_cache :
        /\ request_cache[key].kind = "response"
        /\ request_cache[key].status = "success"
        /\ 200 <= request_cache[key].status_code
        /\ request_cache[key].status_code < 300

\* A cached request was just answered with a SOAP fault, which is not in the
\* cache, while the cache holds the success of another request.
C14_Witness ==
    /\ call.use_cache /\ call.max_retries = 0
    /\ call.sends = 1
    /\ call.ret.status = "soap_fault"
    /\ CallKey(call) \notin DOMAIN request_cache
    /\ request_cache # <<>>

\* C15: a call of execute_request with use_cache for a request whose last
\* success through the cache was received less than 5 minutes ago returns
\* that same response and does not call the repository; when that success is
\* 5 minutes old or older (or there is none) the request is sent.
C15_CacheHitWithinTtl ==
    [][(now' = now /\ call'.use_cache /\ call'.max_retries = 0
        /\ call'.operation_supported) =>
          IF /\ CallKey(call') \in DOMAIN succeeded
             /\ now - succeeded[CallKey(call')].received_at < 5
          THEN /\ call'.ret = succeeded[CallKey(call')]
               /\ call'.sends = 0
               /\ request_cache' = request_cache
          ELSE /\ call'.sends = 1
               /\ call'.ret.kind = "response" => call'.ret.received_at = now]_vars

\* A cached request was answered, without a send, with a response received
\* some minutes before.
C15_Witness ==
    /\ call.use_cache /\ call.max_retries = 0
    /\ call.sends = 0
    /\ call.ret.kind = "response"
    /\ call.ret.received_at < now
    /\ now - call.ret.received_at < 5
    /\ call.ret = succeeded[CallKey(call)]

\* C16 as stated: when a request with use_cache=true has just succeeded, an
\* identical request with use_cache=true issued less than 5 minutes after
\* that response was received causes no send, whatever max_retries is in
\* either request.
C16_UseCacheAlwaysCaches ==
    [][(now' = now
        /\ call.use_cache /\ call.ret.kind = "response"
        /\ call.ret.status = "success"
        /\ now - call.ret.received_at < 5
        /\ call'.use_cache /\ call'.request = call.request
        /\ call'.operation_supported) =>
          call'.sends = 0]_vars

(***************************************************************************)
(* SpecModule: one run of run_module of soap_request, soap_batch or        *)
(* soap_validate                                                           *)
(***************************************************************************)

Modules == {"soap_request", "soap_batch", "soap_validate"}

\* What the run depends on: the module, whether the toolkit could be
\* imported (HAS_SOAP_MODULE), check mode, the number of requests the
\* playbook gives (one, except for soap_batch), and the first of them whose
\* parameters do not pass the checks made before the repository is built
\* (SoapRequestDTO.validate_input; the Endpoint constructor in
\* soap_validate), 0 when all pass.
ModuleParams ==
    {p \in [module : Modules, has_soap_module : BOOLEAN, check_mode : BOOLEAN,
            requests : 1..MaxRequests, first_invalid : 0..MaxRequests] :
        /\ p.first_invalid <= p.requests
        /\ p.module # "soap_batch" => p.requests = 1}

InitModule ==
    /\ BatchIdle
    /\ SendIdle
    /\ ClassifyIdle
    /\ CacheIdle
    /\ AsyncIdle
    /\ ExtIdle
    /\ params \in ModuleParams
    /\ mpc = "start"
    /\ checked = 0
    /\ repository = "none"
    /\ uc_outcome = "none"
    /\ exit_call = "none"

\* module.exit_json and module.fail_json print the result and end the
\* process (sys.exit): nothing of run_module runs after them.
Exit(how) ==
    /\ mpc' = "exited"
    /\ exit_call' = how

\* `if not HAS_SOAP_MODULE: module.fail_json(...)`
ImportCheck ==
    /\ mpc = "start"
    /\ IF params.has_soap_module
       THEN mpc' = "check_mode" /\ UNCHANGED exit_call
       ELSE Exit("fail_json")
    /\ UNCHANGED <<params, checked, repository, uc_outcome>>
    /\ UNCHANGED notModuleVars

\* `if module.check_mode: module.exit_json(**result)`
CheckMode ==
    /\ mpc = "check_mode"
    /\ IF params.check_mode
       THEN Exit("exit_json")
       ELSE mpc' = "try" /\ UNCHANGED exit_call
    /\ UNCHANGED <<params, checked, repository, uc_outcome>>
    /\ UNCHANGED notModuleVars

\* The start of the try block, before the repository is built, for the
\* next request: input validation with fail_json in soap_request and
\* soap_batch (one iteration of its loop over the requests); in
\* soap_validate the Endpoint constructor, whose ValueError the except
\* clause reports with exit_json.
ValidateInput ==
    /\ mpc = "try"
    /\ checked < params.requests
    /\ IF checked + 1 # params.first_invalid
       THEN checked' = checked + 1 /\ UNCHANGED <<mpc, exit_call>>
       ELSE /\ UNCHANGED checked
            /\ IF params.module = "soap_validate"
               THEN Exit("exit_json")
               ELSE Exit("fail_json")
    /\ UNCHANGED <<params, repository, uc_outcome>>
    /\ UNCHANGED notModuleVars

\* Every request passed the checks.
ValidateDone ==
    /\ mpc = "try"
    /\ checked = params.requests
    /\ mpc' = "validated"
    /\ UNCHANGED <<params, checked, repository, uc_outcome, exit_call>>
    /\ UNCHANGED notModuleVars

\* repository = HttpSoapRepository(...)
CreateRepository ==
    /\ mpc = "validated"
    /\ repository' = "open"
    /\ mpc' = "acquired"
    /\ UNCHANGED <<params, checked, uc_outcome, exit_call>>
    /\ UNCHANGED notModuleVars

\* use_case.execute(command): it returns a result that tells success
\* ("ok") or failure ("fail"), or an exception leaves it ("raise").
UseCaseRun ==
    /\ mpc = "acquired"
    /\ \E o \in ExecuteOutcomes : uc_outcome' = o
    /\ mpc' = "executed"
    /\ UNCHANGED <<params, checked, repository, exit_call>>
    /\ UNCHANGED notModuleVars

\* soap_request, after execute: an exception goes to `except Exception`,
\* which calls fail_json; a result with success=false is reported with
\* fail_json; otherwise the code goes on to repository.close().
RequestAfterExecute ==
    /\ mpc = "executed"
    /\ params.module = "soap_request"
    /\ IF uc_outcome = "ok"
       THEN mpc' = "closing" /\ UNCHANGED exit_call
       ELSE Exit("fail_json")
    /\ UNCHANGED <<params, checked, repository, uc_outcome>>
    /\ UNCHANGED notModuleVars

\* soap_batch, after execute: an exception goes to `except Exception`, which
\* calls fail_json; a returned batch result, with failed requests or not,
\* goes on to repository.close().
BatchAfterExecute ==
    /\ mpc = "executed"
    /\ params.module = "soap_batch"
    /\ IF uc_outcome = "raise"
       THEN Exit("fail_json")
       ELSE mpc' = "closing" /\ UNCHANGED exit_call
    /\ UNCHANGED <<params, checked, repository, uc_outcome>>
    /\ UNCHANGED notModuleVars

\* soap_validate, after execute: the finally clause closes the repository
\* whether execute returned or raised.
ValidateAfterExecute ==
    /\ mpc = "executed"
    /\ params.module = "soap_validate"
    /\ mpc' = "closing"
    /\ UNCHANGED <<params, checked, repository, uc_outcome, exit_call>>
    /\ UNCHANGED notModuleVars

\* repository.close()
CloseRepository ==
    /\ mpc = "closing"
    /\ repository' = "closed"
    /\ mpc' = "closed"
    /\ UNCHANGED <<params, checked, uc_outcome, exit_call>>
    /\ UNCHANGED notModuleVars

\* module.exit_json(**result) at the end of the run (in soap_validate also
\* from the except clauses).
ExitJson ==
    /\ mpc = "closed"
    /\ Exit("exit_json")
    /\ UNCHANGED <<params, checked, repository, uc_outcome>>
    /\ UNCHANGED notModuleVars

NextModule ==
    \/ ImportCheck
    \/ CheckMode
    \/ ValidateInput
    \/ ValidateDone
    \/ CreateRepository
    \/ UseCaseRun
    \/ RequestAfterExecute
    \/ BatchAfterExecute
    \/ ValidateAfterExecute
    \/ CloseRepository
    \/ ExitJson

SpecModule == InitModule /\ [][NextModule]_vars

(***************************************************************************)
(* Properties of the module runs (checked under SpecModule)                *)
(***************************************************************************)

\* C19 as stated: on every exit path of run_module of the three modules, a
\* repository that was built has been closed when the module exits.
C19_RepositoryClosedOnExit ==
    (mpc = "exited" /\ repository # "none") => repository = "closed"

(***************************************************************************)
(* SpecAsync: send_async and get_response of one HttpSoapRepository        *)
(***************************************************************************)

InitAsync ==
    /\ BatchIdle
    /\ SendIdle
    /\ ClassifyIdle
    /\ CacheIdle
    /\ ModuleIdle
    /\ ExtIdle
    /\ async_responses = <<>>
    /\ started = [id \in RequestIds |-> 0]
    /\ running = [id \in RequestIds |-> 0]
    /\ polled = [request_id |-> "r1", response |-> NoAsyncResponse]

\* The number of send_async calls made so far.
RECURSIVE Sum(_, _)
Sum(f, S) ==
    IF S = {} THEN 0
    ELSE LET x == CHOOSE x \in S : TRUE IN f[x] + Sum(f, S \ {x})

\* A SoapResponse as get_response hands it out.
AsyncResponse(request_id, status, status_code, error_message) ==
    [request_id |-> request_id, status |-> status, status_code |-> status_code,
     error_message |-> error_message]

\* execute_async that stores nothing when send raised.
execute_async_drop_failure(responses, request_id, ret) ==
    IF request_id = "" \/ ret.kind = "raise"
    THEN responses
    ELSE (request_id :> AsyncResponse(request_id, ret.status, ret.status_code,
                                      ret.error_message)) @@ responses

\* execute_async, the body of the background thread, when send ended in
\* `ret`: the map it leaves. SoapResponse.__post_init__ raises ValueError for
\* an empty request_id, in send as well as in the except clause, so that for
\* such a request the thread ends without storing anything.
execute_async(responses, request_id, ret) ==
    IF request_id = ""
    THEN responses
    ELSE IF ret.kind = "raise"
         THEN (request_id :> AsyncResponse(request_id, "error", 0, ret.status))
                  @@ responses
         ELSE (request_id :> AsyncResponse(request_id, ret.status, ret.status_code,
                                           ret.error_message)) @@ responses

\* HttpSoapRepository.get_response
get_response(responses, request_id) ==
    IF request_id \in DOMAIN responses
    THEN responses[request_id]
    ELSE NoAsyncResponse

\* send_async(request): start the thread and return request.id at once.
SendAsync(request_id) ==
    /\ Sum(started, RequestIds) < MaxAsync
    /\ started' = [started EXCEPT ![request_id] = @ + 1]
    /\ running' = [running EXCEPT ![request_id] = @ + 1]
    /\ UNCHANGED <<async_responses, polled>>
    /\ UNCHANGED notAsyncVars

\* A background thread for request_id ends: send returned or raised, and
\* execute_async stored what it stores.
FinishAsync(request_id) ==
    /\ running[request_id] > 0
    /\ \E ret \in SendOutcomes :
          async_responses' = execute_async(async_responses, request_id, ret)
    /\ running' = [running EXCEPT ![request_id] = @ - 1]
    /\ UNCHANGED <<started, polled>>
    /\ UNCHANGED notAsyncVars

\* get_response(request_id)
GetResponse(request_id) ==
    /\ polled' = [request_id |-> request_id,
                  response |-> get_response(async_responses, request_id)]
    /\ UNCHANGED <<async_responses, started, running>>
    /\ UNCHANGED notAsyncVars

NextAsync ==
    \/ \E request_id \in RequestIds : SendAsync(request_id)
    \/ \E request_id \in RequestIds : FinishAsync(request_id)
    \/ \E request_id \in RequestIds : GetResponse(request_id)

\* Every background send terminates.
SpecAsync ==
    /\ InitAsync
    /\ [][NextAsync]_vars
    /\ \A request_id \in RequestIds : WF_vars(FinishAsync(request_id))

(***************************************************************************)
(* Properties of the asynchronous send (checked under SpecAsync)           *)
(***************************************************************************)

\* The number of background sends for the id that have finished.
Finished(request_id) == started[request_id] - running[request_id]

\* C20 as stated: send_async returns without waiting; get_response(id) gives
\* None until a background send for id has finished; a started send leads to
\* get_response(id) giving a response whose request_id is id, with status
\* error when nothing better is known; and once get_response(id) is not None
\* its value does not change.
C20_AsyncLifecycle ==
    /\ [](\A id \in RequestIds :
            /\ Finished(id) = 0 => get_response(async_responses, id) = NoAsyncResponse
            /\ (polled.request_id = id /\ polled.response # NoAsyncResponse) =>
                   Finished(id) >= 1)
    /\ \A id \in RequestIds :
          (started[id] > 0) ~> (get_response(async_responses, id).request_id = id)
    /\ [][\A id \in RequestIds :
            get_response(async_responses, id) # NoAsyncResponse =>
                get_response(async_responses', id)
                    = get_response(async_responses, id)]_vars

\* C20 as amended: for a request with a non-empty id, get_response(id) gives
\* None until a background send for id has finished; once one has finished
\* get_response(id) gives a response with request_id = id (a send that
\* raised leaves a response with status error and status code 0), and every
\* started send leads there; the value changes only when another background
\* send for the same id finishes.
C20_AsyncLifecycleOnce ==
    /\ [](\A id \in RequestIds :
            /\ Finished(id) = 0 => get_response(async_responses, id) = NoAsyncResponse
            /\ (polled.request_id = id /\ polled.response # NoAsyncResponse) =>
                   Finished(id) >= 1
            /\ (id # "" /\ Finished(id) >= 1) =>
                   /\ get_response(async_responses, id).request_id = id
                   /\ get_response(async_responses, id).status
                          \in {"success", "soap_fault", "auth_error", "error"}
                   /\ get_response(async_responses, id).status_code = 0 =>
                          get_response(async_responses, id).status = "error")
    /\ \A id \in RequestIds \ {""} :
          (started[id] > 0) ~> (get_response(async_responses, id).request_id = id)
    /\ [][\A id \in RequestIds :
            (get_response(async_responses, id) # NoAsyncResponse /\ running[id] = 0) =>
                get_response(async_responses', id)
                    = get_response(async_responses, id)]_vars

\* A send that raised was polled: get_response gave the error response.
C20_Witness ==
    /\ polled.request_id = "r1"
    /\ polled.response.status = "error"
    /\ polled.response.status_code = 0
    /\ polled.response.request_id = "r1"
    /\ started["r1"] = 1
    /\ running["r1"] = 0
    /\ running["r2"] = 1

(***************************************************************************)
(* Endpoint construction                                                   *)
(***************************************************************************)

\* URL strings, and what urllib.parse.urlparse finds in them.
UrlStrings ==
    {"", "example.com", "http://", "http://h/s", "https://h/s", "ftp://h/s",
     "http://:80"}

urlparse(url) ==
    CASE url = "http://"    -> [scheme |-> "http", netloc |-> "", hostname |-> None]
      [] url = "http://h/s" -> [scheme |-> "http", netloc |-> "h", hostname |-> "h"]
      [] url = "https://h/s" -> [scheme |-> "https", netloc |-> "h", hostname |-> "h"]
      [] url = "ftp://h/s"  -> [scheme |-> "ftp", netloc |-> "h", hostname |-> "h"]
      [] url = "http://:80" -> [scheme |-> "http", netloc |-> ":80", hostname |-> None]
      [] OTHER              -> [scheme |-> "", netloc |-> "", hostname |-> None]

\* The arguments of Endpoint(...) that __post_init__ reads. username,
\* password and cert_path are TRUE when the argument is a non-empty string.
EndpointArgs ==
    [url : UrlStrings,
     auth_type : {None, "none", "basic", "digest", "ntlm", "certificate", "kerberos"},
     username : BOOLEAN,
     password : BOOLEAN,
     cert_path : BOOLEAN,
     default_timeout : {-1, 0, 30},
     default_soap_version : {"1.1", "1.2", "2.0"}]

\* Endpoint.__post_init__: the message of the ValueError it raises, or None
\* when the Endpoint is constructed.
endpoint_post_init(args) ==
    IF ~truthy(args.url)
    THEN "url ist erforderlich"
    ELSE IF urlparse(args.url).scheme = "" \/ urlparse(args.url).netloc = ""
    THEN "Ungueltige URL"
    ELSE IF urlparse(args.url).scheme \notin {"http", "https"}
    THEN "URL muss http oder https verwenden"
    ELSE IF truthy(args.auth_type)
            /\ args.auth_type \notin {"basic", "digest", "ntlm", "certificate"}
    THEN "Ungueltiger auth_type"
    ELSE IF truthy(args.auth_type)
            /\ args.auth_type \in {"basic", "digest", "ntlm"}
            /\ (~args.username \/ ~args.password)
    THEN "Auth benoetigt username und password"
    ELSE IF truthy(args.auth_type) /\ args.auth_type = "certificate"
            /\ ~args.cert_path
    THEN "certificate Auth benoetigt cert_path"
    ELSE IF args.default_timeout <= 0
    THEN "default_timeout muss groesser als 0 sein"
    ELSE IF args.default_soap_version \notin {"1.1", "1.2"}
    THEN "default_soap_version muss '1.1' oder '1.2' sein"
    ELSE None

\* A constructed Endpoint as validation reads it.
as_endpoint(args) ==
    [urlValid |-> TRUE,
     auth_type |-> IF args.auth_type = None THEN "none" ELSE args.auth_type,
     username |-> args.username,
     password |-> args.password,
     cert_path |-> args.cert_path,
     default_timeout |-> args.default_timeout]

(***************************************************************************)
(* SpecValidate: one run of the soap_validate module                       *)
(***************************************************************************)

\* module.params of soap_validate, as AnsibleModule hands them over.
ValidateParams ==
    [endpoint_url : {"", "http://h/s", "https://h/s", "ftp://h/s"},
     auth_type : {"none", "basic", "digest", "ntlm"},
     username : BOOLEAN,
     password : BOOLEAN,
     timeout : {0, 10},
     check_wsdl : BOOLEAN]

\* The Endpoint(...) call of run_module.
validate_endpoint_args(p) ==
    [url |-> p.endpoint_url,
     auth_type |-> p.auth_type,
     username |-> p.username,
     password |-> p.password,
     cert_path |-> FALSE,
     default_timeout |-> p.timeout,
     default_soap_version |-> "1.1"]

\* What HttpClient.get can end in: a response, an HttpClientError (any
\* RequestException), or an exception that is not a RequestException.
GetOutcomes ==
    [kind : {"HttpResponse"}, status_code : {200, 404, 499, 500, 503},
     body : {"", "<definitions/>"}]
    \cup [kind : {"HttpClientError", "Exception"}, status_code : {0}, body : {""}]

\* HttpClient.test_connectivity behind HttpSoapRepository.validate_endpoint:
\* the boolean it returns, or the exception that escapes it.
test_connectivity(get) ==
    IF get.kind = "HttpResponse"
    THEN [raised |-> FALSE, value |-> get.status_code < 500]
    ELSE IF get.kind = "HttpClientError"
    THEN [raised |-> FALSE, value |-> FALSE]
    ELSE [raised |-> TRUE, value |-> FALSE]

\* HttpSoapRepository.get_wsdl and the has_wsdl flag execute derives from it;
\* an exception is swallowed by execute.
has_wsdl(get) ==
    /\ get.kind = "HttpResponse"
    /\ http_is_successful(get)
    /\ truthy(get.body)

ValidateEndpointResult(valid, is_reachable, wsdl, error_message) ==
    [is_valid |-> valid, is_reachable |-> is_reachable, has_wsdl |-> wsdl,
     error_message |-> error_message]

\* ValidateEndpointUseCase.execute: the results it can return.
validate_execute(endpoint, check_connectivity, check_wsdl) ==
    IF ~is_valid(validate_endpoint(endpoint))
    THEN {ValidateEndpointResult(FALSE, FALSE, FALSE,
                                 "Endpoint-Konfiguration ungueltig")}
    ELSE LET reach == IF check_connectivity
                      THEN {test_connectivity(get) : get \in GetOutcomes}
                      ELSE {[raised |-> FALSE, value |-> FALSE]}
             wsdl == IF check_wsdl
                     THEN {has_wsdl(get) : get \in GetOutcomes}
                     ELSE {FALSE}
         IN  UNION {IF r.raised
                    THEN {ValidateEndpointResult(FALSE, FALSE, FALSE,
                              "Connectivity-Check fehlgeschlagen")}
                    ELSE {ValidateEndpointResult(TRUE, r.value, w, None) :
                              w \in wsdl}
                    : r \in reach}

InitValidate ==
    /\ CoreIdle
    /\ SessionIdle
    /\ CacheKeyIdle
    /\ BatchInputIdle
    /\ XmlBodyIdle
    /\ InputIdle
    /\ EndpointIdle
    /\ EnvelopeIdle
    /\ vparams \in ValidateParams
    /\ vpc = "start"
    /\ validation = ValidateEndpointResult(FALSE, FALSE, FALSE, None)
    /\ vresult = [is_valid |-> FALSE, reachable |-> FALSE, msg |-> ""]

\* Endpoint(...): a ValueError lands in `except Exception`, which sets
\* is_valid to False and exits.
CreateEndpoint ==
    /\ vpc = "start"
    /\ IF endpoint_post_init(validate_endpoint_args(vparams)) # None
       THEN /\ vresult' = [vresult EXCEPT !.is_valid = FALSE,
                                          !.msg = "Validation error"]
            /\ vpc' = "exit"
       ELSE /\ vpc' = "endpoint"
            /\ UNCHANGED vresult
    /\ UNCHANGED <<vparams, validation>>
    /\ UNCHANGED notValidateVars

\* use_case.execute(command), with check_connectivity=True.
ValidateExecute ==
    /\ vpc = "endpoint"
    /\ validation' \in validate_execute(
           as_endpoint(validate_endpoint_args(vparams)), TRUE, vparams.check_wsdl)
    /\ vpc' = "executed"
    /\ UNCHANGED <<vparams, vresult>>
    /\ UNCHANGED notValidateVars

\* Build result ... module.exit_json(**result)
BuildResult ==
    /\ vpc = "executed"
    /\ vresult' =
          [is_valid |-> validation.is_valid,
           reachable |-> validation.is_reachable,
           msg |-> IF truthy(validation.error_message)
                   THEN validation.error_message
                   ELSE IF validation.is_reachable
                        THEN "Endpoint reachable"
                        ELSE "Endpoint not reachable"]
    /\ vpc' = "exit"
    /\ UNCHANGED <<vparams, validation>>
    /\ UNCHANGED notValidateVars

NextValidate ==
    \/ CreateEndpoint
    \/ ValidateExecute
    \/ BuildResult

SpecValidate == InitValidate /\ [][NextValidate]_vars

\* C21: the is_valid flag the module returns is true only when the endpoint
\* is reachable: a connectivity check that reports the endpoint unreachable
\* gives is_valid = false, in the use case's result and in the module's.
C21_ValidImpliesReachable ==
    /\ validation.is_valid => validation.is_reachable
    /\ (vpc = "exit" /\ vresult.is_valid) => vresult.reachable

(***************************************************************************)
(* SpecInput: SoapRequestDTO.validate_input and DtoMapper.dto_to_command   *)
(***************************************************************************)

\* The DTO fields that validate_input and dto_to_command read. body is None,
\* empty or an XML text; body_dict is None, the empty dict or a dict with
\* entries; username, password and cert_path are TRUE for a non-empty string.
SoapRequestDTOs ==
    [endpoint_url : {"", "example.com", "http://h/s"},
     body : {None, "", "<a/>"},
     body_dict : {None, "{}", "{a: 1}"},
     soap_version : {"1.1", "1.2", "2.0"},
     auth_type : {"none", "basic", "certificate", "kerberos"},
     username : BOOLEAN,
     password : BOOLEAN,
     cert_path : BOOLEAN,
     timeout : {0, 1, 30},
     max_retries : {-1, 0, 2},
     headers : {None, "X-Test"}]

\* Python truth of a body_dict.
dict_truthy(d) == d # None /\ d # "{}"

\* validate_input that lets timeout = 0 through.
validate_input_timeout_zero(d) ==
    IF ~truthy(d.endpoint_url)
    THEN [ok |-> FALSE, message |-> "endpoint_url ist erforderlich"]
    ELSE IF ~truthy(d.body) /\ ~dict_truthy(d.body_dict)
    THEN [ok |-> FALSE, message |-> "Entweder body oder body_dict muss angegeben werden"]
    ELSE IF truthy(d.body) /\ dict_truthy(d.body_dict)
    THEN [ok |-> FALSE, message |-> "body und body_dict koennen nicht gleichzeitig angegeben werden"]
    ELSE IF d.soap_version \notin {"1.1", "1.2"}
    THEN [ok |-> FALSE, message |-> "soap_version muss 1.1 oder 1.2 sein"]
    ELSE IF d.auth_type \notin {"none", "basic", "digest", "ntlm", "certificate"}
    THEN [ok |-> FALSE, message |-> "Ungueltiger auth_type"]
    ELSE IF d.auth_type \in {"basic", "digest", "ntlm"}
            /\ (~d.username \/ ~d.password)
    THEN [ok |-> FALSE, message |-> "Auth benoetigt username und password"]
    ELSE IF d.auth_type = "certificate" /\ ~d.cert_path
    THEN [ok |-> FALSE, message |-> "certificate Auth benoetigt cert_path"]
    ELSE IF d.timeout < 0
    THEN [ok |-> FALSE, message |-> "timeout muss mindestens 1 Sekunde sein"]
    ELSE IF d.max_retries < 0
    THEN [ok |-> FALSE, message |-> "max_retries kann nicht negativ sein"]
    ELSE [ok |-> TRUE, message |-> None]

\* SoapRequestDTO.validate_input
validate_input(d) ==
    IF ~truthy(d.endpoint_url)
    THEN [ok |-> FALSE, message |-> "endpoint_url ist erforderlich"]
    ELSE IF ~truthy(d.body) /\ ~dict_truthy(d.body_dict)
    THEN [ok |-> FALSE, message |-> "Entweder body oder body_dict muss angegeben werden"]
    ELSE IF truthy(d.body) /\ dict_truthy(d.body_dict)
    THEN [ok |-> FALSE, message |-> "body und body_dict koennen nicht gleichzeitig angegeben werden"]
    ELSE IF d.soap_version \notin {"1.1", "1.2"}
    THEN [ok |-> FALSE, message |-> "soap_version muss 1.1 oder 1.2 sein"]
    ELSE IF d.auth_type \notin {"none", "basic", "digest", "ntlm", "certificate"}
    THEN [ok |-> FALSE, message |-> "Ungueltiger auth_type"]
    ELSE IF d.auth_type \in {"basic", "digest", "ntlm"}
            /\ (~d.username \/ ~d.password)
    THEN [ok |-> FALSE, message |-> "Auth benoetigt username und password"]
    ELSE IF d.auth_type = "certificate" /\ ~d.cert_path
    THEN [ok |-> FALSE, message |-> "certificate Auth benoetigt cert_path"]
    ELSE IF d.timeout < 1
    THEN [ok |-> FALSE, message |-> "timeout muss mindestens 1 Sekunde sein"]
    ELSE IF d.max_retries < 0
    THEN [ok |-> FALSE, message |-> "max_retries kann nicht negativ sein"]
    ELSE [ok |-> TRUE, message |-> None]

\* The Endpoint(...) call of dto_to_command: auth_type is handed over as the
\* DTO holds it.
dto_endpoint_args(d) ==
    [url |-> d.endpoint_url,
     auth_type |-> d.auth_type,
     username |-> d.username,
     password |-> d.password,
     cert_path |-> d.cert_path,
     default_timeout |-> d.timeout,
     default_soap_version |-> "1.1"]

\* DtoMapper.dto_to_command: the command, or the ValueError that escapes
\* from Endpoint(...) or from XmlBody.from_dict.
dto_to_command(d) ==
    IF endpoint_post_init(dto_endpoint_args(d)) # None
    THEN [raised |-> endpoint_post_init(dto_endpoint_args(d)),
          endpoint_url |-> None, timeout |-> 0, custom_headers |-> None,
          body_content |-> None]
    ELSE [raised |-> None, endpoint_url |-> d.endpoint_url,
          timeout |-> d.timeout, custom_headers |-> d.headers,
          body_content |-> IF ~truthy(d.body) /\ dict_truthy(d.body_dict)
                           THEN "<Request><a>1</a></Request>"
                           ELSE d.body]

InitInput ==
    /\ CoreIdle
    /\ SessionIdle
    /\ CacheKeyIdle
    /\ BatchInputIdle
    /\ XmlBodyIdle
    /\ ValidateIdle
    /\ EndpointIdle
    /\ EnvelopeIdle
    /\ request_dto \in SoapRequestDTOs
    /\ dpc = "built"
    /\ dto_valid = [ok |-> FALSE, message |-> None]
    /\ mapped = [raised |-> None, endpoint_url |-> None, timeout |-> 0,
                 custom_headers |-> None, body_content |-> None]

\* is_valid, error_message = request_dto.validate_input(); an invalid DTO
\* ends the run.
DtoValidate ==
    /\ dpc = "built"
    /\ dto_valid' = validate_input(request_dto)
    /\ dpc' = IF validate_input(request_dto).ok THEN "valid" ELSE "rejected"
    /\ UNCHANGED <<request_dto, mapped>>
    /\ UNCHANGED notInputVars

\* command = DtoMapper.dto_to_command(request_dto)
DtoToCommand ==
    /\ dpc = "valid"
    /\ mapped' = dto_to_command(request_dto)
    /\ dpc' = "mapped"
    /\ UNCHANGED <<request_dto, dto_valid>>
    /\ UNCHANGED notInputVars

NextInput ==
    \/ DtoValidate
    \/ DtoToCommand

SpecInput == InitInput /\ [][NextInput]_vars

(***************************************************************************)
(* Properties of input validation (checked under SpecInput)                *)
(***************************************************************************)

\* The rules of C22 in the order the claim lists them, each with the word
\* that names it in the message; "given" is read as "non-empty".
C22_Rules(d) ==
    << <<d.endpoint_url # "", "endpoint_url ist erforderlich">>,
       <<~(d.body \in {None, ""} /\ d.body_dict \in {None, "{}"}),
         "Entweder body oder body_dict muss angegeben werden">>,
       <<~(d.body \notin {None, ""} /\ d.body_dict \notin {None, "{}"}),
         "body und body_dict koennen nicht gleichzeitig angegeben werden">>,
       <<d.soap_version \in {"1.1", "1.2"}, "soap_version muss 1.1 oder 1.2 sein">>,
       <<d.auth_type \in {"none", "basic", "digest", "ntlm", "certificate"},
         "Ungueltiger auth_type">>,
       <<d.auth_type \in {"basic", "digest", "ntlm"} => (d.username /\ d.password),
         "Auth benoetigt username und password">>,
       <<d.auth_type = "certificate" => d.cert_path,
         "certificate Auth benoetigt cert_path">>,
       <<d.timeout >= 1, "timeout muss mindestens 1 Sekunde sein">>,
       <<d.max_retries >= 0, "max_retries kann nicht negativ sein">> >>

\* C22: validate_input returns (True, None) exactly when every rule holds,
\* and otherwise (False, message) with the message of the first violated
\* rule in the order of the claim.
C22_ValidateInputRules ==
    dpc # "built" =>
        LET rules == C22_Rules(request_dto)
            broken == {i \in 1..Len(rules) : ~rules[i][1]}
        IN  IF broken = {}
            THEN dto_valid = [ok |-> TRUE, message |-> None]
            ELSE LET first == CHOOSE i \in broken : \A j \in broken : i <= j
                 IN  dto_valid = [ok |-> FALSE, message |-> rules[first][2]]

\* A DTO that breaks two rules was turned down with the earlier one.
C22_Witness ==
    /\ dpc = "rejected"
    /\ request_dto.timeout = 0
    /\ request_dto.max_retries = -1
    /\ dto_valid = [ok |-> FALSE, message |-> "timeout muss mindestens 1 Sekunde sein"]

\* C23: for every DTO accepted by validate_input, dto_to_command returns a
\* command without raising, and the command's endpoint_entity URL, timeout and
\* custom headers are the DTO's endpoint_url, timeout and headers.
C23_AcceptedDtoMaps ==
    dpc = "mapped" =>
        /\ mapped.raised = None
        /\ mapped.endpoint_url = request_dto.endpoint_url
        /\ mapped.timeout = request_dto.timeout
        /\ mapped.custom_headers = request_dto.headers

(***************************************************************************)
(* SpecEndpoint: one Endpoint(...) call                                    *)
(***************************************************************************)

InitEndpoint ==
    /\ CoreIdle
    /\ SessionIdle
    /\ CacheKeyIdle
    /\ BatchInputIdle
    /\ XmlBodyIdle
    /\ ValidateIdle
    /\ InputIdle
    /\ EnvelopeIdle
    /\ eargs \in EndpointArgs
    /\ endpoint_entity = [state |-> "pending", error |-> None]

\* Endpoint(...): __post_init__ raises ValueError or lets the object be.
EndpointConstruct ==
    /\ endpoint_entity.state = "pending"
    /\ endpoint_entity' = IF endpoint_post_init(eargs) = None
                   THEN [state |-> "constructed", error |-> None]
                   ELSE [state |-> "raised", error |-> endpoint_post_init(eargs)]
    /\ UNCHANGED eargs
    /\ UNCHANGED notEndpointVars

NextEndpoint == EndpointConstruct

SpecEndpoint == InitEndpoint /\ [][NextEndpoint]_vars

\* The constraints of C24 on the arguments of an Endpoint.
C24_Constraints(a) ==
    /\ urlparse(a.url).scheme \in {"http", "https"}
    /\ urlparse(a.url).hostname # None
    /\ a.auth_type \in {None, "none", "basic", "digest", "ntlm", "certificate"}
    /\ a.auth_type \in {"basic", "digest", "ntlm"} => (a.username /\ a.password)
    /\ a.auth_type = "certificate" => a.cert_path
    /\ a.default_timeout > 0
    /\ a.default_soap_version \in {"1.1", "1.2"}

\* C24: Endpoint construction succeeds exactly when the URL is http/https
\* with a non-empty host, the auth kind is none, basic, digest, ntlm or
\* certificate with the credentials its kind needs, the default timeout is
\* positive and the SOAP version is 1.1 or 1.2; otherwise it fails.
C24_EndpointConstruction ==
    /\ endpoint_entity.state = "constructed" => C24_Constraints(eargs)
    /\ endpoint_entity.state = "raised" => ~C24_Constraints(eargs)

(***************************************************************************)
(* SpecEnvelope: SoapEnvelope construction and build()                     *)
(***************************************************************************)

\* XML text as a sequence of tokens: the XML declaration, a DOCTYPE, start
\* tags with the names of their attributes, end tags, empty-element tags.
\* ns is the namespace the tag's name resolves to.
Decl == [t |-> "decl", name |-> "", ns |-> "", attrs |-> <<>>]
Doctype == [t |-> "doctype", name |-> "", ns |-> "", attrs |-> <<>>]
Open(name, ns, attrs) == [t |-> "open", name |-> name, ns |-> ns, attrs |-> attrs]
Close(name, ns) == [t |-> "close", name |-> name, ns |-> ns, attrs |-> <<>>]
Empty(name) == [t |-> "empty", name |-> name, ns |-> "", attrs |-> <<>>]

\* The fragments handed in as body_content and header_content: an element,
\* an element after an XML declaration, an element after a DOCTYPE, and a
\* start tag that is never closed.
Fragments ==
    {<<Empty("a")>>,
     <<Decl, Empty("a")>>,
     <<Doctype, Empty("a")>>,
     <<Open("a", "", <<>>)>>}

\* header_content: None, the empty string or a fragment.
HeaderContents == {<<>>} \cup Fragments

\* namespace_declarations: the prefixes of the dict in insertion order
\* (None and the empty dict are both <<>>).
NamespaceDeclarations ==
    {<<>>, <<"web">>, <<"ns1">>, <<"soap">>, <<"">>, <<"web", "ns1">>,
     <<"web", "soap">>}

\* SoapVersion.namespace
version_namespace(version) ==
    IF version = "1.1"
    THEN "http://schemas.xmlsoap.org/soap/envelope/"
    ELSE "http://www.w3.org/2003/05/soap-envelope"

\* The attribute names of one tag are distinct and each is a name.
attrs_ok(attrs) ==
    /\ \A i, j \in 1..Len(attrs) : attrs[i] = attrs[j] => i = j
    /\ \A i \in 1..Len(attrs) : attrs[i] # "xmlns:"

\* The text after the prolog: an XML declaration only at the very start, a
\* DOCTYPE only right after it.
after_prolog(doc) ==
    LET i == IF Len(doc) >= 1 /\ doc[1].t = "decl" THEN 2 ELSE 1
        j == IF Len(doc) >= i /\ doc[i].t = "doctype" THEN i + 1 ELSE i
    IN  SubSeq(doc, j, Len(doc))

\* Tags are nested properly under exactly one root element.
RECURSIVE balanced(_, _, _, _)
balanced(tokens, i, stack, roots) ==
    IF i > Len(tokens)
    THEN stack = <<>> /\ roots = 1
    ELSE IF tokens[i].t = "close"
    THEN /\ stack # <<>>
         /\ stack[Len(stack)] = tokens[i].name
         /\ balanced(tokens, i + 1, SubSeq(stack, 1, Len(stack) - 1), roots)
    ELSE /\ ~(stack = <<>> /\ roots >= 1)
         /\ balanced(tokens, i + 1,
                     IF tokens[i].t = "open"
                     THEN Append(stack, tokens[i].name) ELSE stack,
                     IF stack = <<>> THEN roots + 1 ELSE roots)

\* What an XML parser accepts (ET.fromstring does not raise ParseError).
wellformed(doc) ==
    LET tokens == after_prolog(doc)
    IN  /\ \A i \in 1..Len(tokens) :
              /\ tokens[i].t \in {"open", "close", "empty"}
              /\ attrs_ok(tokens[i].attrs)
        /\ balanced(tokens, 1, <<>>, 0)

\* The start tags of the children of the root element, in document order.
RECURSIVE children_from(_, _, _)
children_from(tokens, i, depth) ==
    IF i > Len(tokens)
    THEN <<>>
    ELSE IF tokens[i].t = "close"
    THEN children_from(tokens, i + 1, depth - 1)
    ELSE (IF depth = 1 THEN <<tokens[i]>> ELSE <<>>)
         \o children_from(tokens, i + 1,
                          IF tokens[i].t = "open" THEN depth + 1 ELSE depth)

children(doc) == children_from(after_prolog(doc), 1, 0)

\* ET.register_namespace raises ValueError for a prefix of the form ns<digits>.
reserved_prefix(prefix) == prefix \in {"ns0", "ns1"}

\* The arguments of SoapEnvelope(...), and which of the two classes of the
\* repository is constructed.
SoapEnvelopes ==
    [impl : {"plugins", "module_utils"},
     body_content : {<<>>} \cup Fragments,
     version : {"1.1", "1.2"},
     header_content : HeaderContents,
     namespace_declarations : NamespaceDeclarations]

\* SoapEnvelope.__post_init__ (the same in both classes): the message of the
\* ValueError, or None.
envelope_post_init(e) ==
    IF e.body_content = <<>>
    THEN "Body-Content darf nicht leer sein"
    ELSE IF ~wellformed(e.body_content)
    THEN "Body-Content ist kein valides XML"
    ELSE IF e.header_content # <<>> /\ ~wellformed(e.header_content)
    THEN "Header-Content ist kein valides XML"
    ELSE None

\* build() of plugins/.../soap_envelope.py: an ElementTree is put together
\* from the parsed fragments and serialised; registering a reserved prefix
\* raises.
build_plugins(e) ==
    LET soap_ns == version_namespace(e.version)
    IN  IF \E i \in 1..Len(e.namespace_declarations) :
               reserved_prefix(e.namespace_declarations[i])
        THEN [state |-> "build_raised", doc |-> <<>>]
        ELSE [state |-> "built",
              doc |-> <<Decl, Open("Envelope", soap_ns, <<"xmlns:soap">>)>>
                      \o (IF e.header_content # <<>>
                          THEN <<Open("Header", soap_ns, <<>>)>>
                               \o after_prolog(e.header_content)
                               \o <<Close("Header", soap_ns)>>
                          ELSE <<>>)
                      \o <<Open("Body", soap_ns, <<>>)>>
                      \o after_prolog(e.body_content)
                      \o <<Close("Body", soap_ns), Close("Envelope", soap_ns)>>]

\* build() of module_utils/.../soap_envelope.py: the fragments are pasted
\* between the tags as they are, and every declared prefix becomes one more
\* xmlns attribute of the Envelope tag.
build_module_utils(e) ==
    LET soap_ns == version_namespace(e.version)
    IN  [state |-> "built",
         doc |-> <<Decl,
                   Open("Envelope", soap_ns,
                        <<"xmlns:soap">>
                        \o [i \in 1..Len(e.namespace_declarations) |->
                               "xmlns:" \o e.namespace_declarations[i]])>>
                 \o (IF e.header_content # <<>>
                     THEN <<Open("Header", soap_ns, <<>>)>>
                          \o e.header_content
                          \o <<Close("Header", soap_ns)>>
                     ELSE <<>>)
                 \o <<Open("Body", soap_ns, <<>>)>>
                 \o e.body_content
                 \o <<Close("Body", soap_ns), Close("Envelope", soap_ns)>>]

build(e) ==
    IF e.impl = "plugins" THEN build_plugins(e) ELSE build_module_utils(e)

InitEnvelope ==
    /\ CoreIdle
    /\ SessionIdle
    /\ CacheKeyIdle
    /\ BatchInputIdle
    /\ XmlBodyIdle
    /\ ValidateIdle
    /\ InputIdle
    /\ EndpointIdle
    /\ envelope \in SoapEnvelopes
    /\ built = [state |-> "pending", doc |-> <<>>]

\* SoapEnvelope(...)
EnvelopeConstruct ==
    /\ built.state = "pending"
    /\ built' = [state |-> IF envelope_post_init(envelope) = None
                           THEN "constructed" ELSE "construct_failed",
                 doc |-> <<>>]
    /\ UNCHANGED envelope
    /\ UNCHANGED notEnvelopeVars

\* envelope.build()
EnvelopeBuild ==
    /\ built.state = "constructed"
    /\ built' = build(envelope)
    /\ UNCHANGED envelope
    /\ UNCHANGED notEnvelopeVars

NextEnvelope ==
    \/ EnvelopeConstruct
    \/ EnvelopeBuild

SpecEnvelope == InitEnvelope /\ [][NextEnvelope]_vars

\* C25: build() of a constructed SoapEnvelope returns well-formed XML whose
\* Envelope has exactly one Body child in the namespace of the version,
\* preceded by a Header exactly when a header fragment was supplied; a
\* fragment that does not parse makes the construction fail.
C25_BuildWellFormed ==
    /\ built.state \notin {"pending", "construct_failed"} =>
          /\ wellformed(envelope.body_content)
          /\ wellformed(envelope.header_content) \/ envelope.header_content = <<>>
    /\ built.state # "build_raised"
    /\ built.state = "built" =>
          /\ wellformed(built.doc)
          /\ LET soap == [i \in 1..Len(children(built.doc)) |->
                             <<children(built.doc)[i].name,
                               children(built.doc)[i].ns>>]
                 ns == version_namespace(envelope.version)
             IN  soap = IF envelope.header_content # <<>>
                        THEN << <<"Header", ns>>, <<"Body", ns>> >>
                        ELSE << <<"Body", ns>> >>

(***************************************************************************)
(* SpecXmlBody: XmlBody.from_dict                                          *)
(***************************************************************************)

\* Python values as they occur in a body_dict: k is "leaf", "none", "list"
\* or "dict"; a leaf is an int, a bool or a str; items holds the items of a
\* list, or the <<key, value>> pairs of a dict in insertion order.
IntLeaf(i) == [k |-> "leaf", type |-> "int", i |-> i, s |-> "", b |-> FALSE, items |-> <<>>]
StrLeaf(s) == [k |-> "leaf", type |-> "str", i |-> 0, s |-> s, b |-> FALSE, items |-> <<>>]
BoolLeaf(b) == [k |-> "leaf", type |-> "bool", i |-> 0, s |-> "", b |-> b, items |-> <<>>]
NoneValue == [k |-> "none", type |-> "NoneType", i |-> 0, s |-> "", b |-> FALSE, items |-> <<>>]
ListValue(items) == [k |-> "list", type |-> "list", i |-> 0, s |-> "", b |-> FALSE, items |-> items]
DictValue(items) == [k |-> "dict", type |-> "dict", i |-> 0, s |-> "", b |-> FALSE, items |-> items]

Scalars == {IntLeaf(42), StrLeaf("x"), StrLeaf(""), BoolLeaf(TRUE), NoneValue}

InnerDicts == {DictValue(<<>>)} \cup {DictValue(<< <<"b", v>> >>) : v \in Scalars}

ListItems == Scalars \cup (InnerDicts \ {DictValue(<<>>)})

Lists ==
    {ListValue(<<>>)}
    \cup {ListValue(<<x>>) : x \in ListItems}
    \cup {ListValue(<<x, y>>) : x \in ListItems, y \in ListItems}

Values == Scalars \cup InnerDicts \cup Lists

\* The mappings handed to from_dict: empty, one key (a name, or a key that
\* is no XML name), two keys.
Datas ==
    {<<>>}
    \cup {<< <<key, v>> >> : key \in {"a", "a b"}, v \in Values}
    \cup {<< <<"a", v>>, <<"c", w>> >> : v \in Scalars, w \in Scalars}

\* str(value)
python_str(value) ==
    CASE value.type = "int"  -> ToString(value.i)
      [] value.type = "bool" -> IF value.b THEN "True" ELSE "False"
      [] value.type = "str"  -> value.s
      [] OTHER               -> "None"

\* An ElementTree element.
Element(tag, text, kids) == [tag |-> tag, text |-> text, children |-> kids]

\* add_elements of plugins/.../xml_body.py: the children it appends to the
\* parent for the pairs of a dict.
RECURSIVE add_elements(_)
add_elements(items) ==
    IF items = <<>>
    THEN <<>>
    ELSE LET key == items[1][1]
             value == items[1][2]
             first ==
                 CASE value.k = "dict" ->
                          <<Element(key, None, add_elements(value.items))>>
                   [] value.k = "list" ->
                          [n \in 1..Len(value.items) |->
                              IF value.items[n].k = "dict"
                              THEN Element(key, None, add_elements(value.items[n].items))
                              ELSE Element(key,
                                           IF value.items[n].k = "none"
                                           THEN "" ELSE python_str(value.items[n]),
                                           <<>>)]
                   [] value.k = "none" -> <<Element(key, None, <<>>)>>
                   [] OTHER -> <<Element(key, python_str(value), <<>>)>>
         IN  first \o add_elements(Tail(items))

\* _dict_to_xml of module_utils/.../xml_body.py
RECURSIVE dict_to_xml(_)
dict_to_xml(items) ==
    IF items = <<>>
    THEN <<>>
    ELSE LET key == items[1][1]
             value == items[1][2]
             first ==
                 CASE value.k = "dict" ->
                          <<Element(key, None, dict_to_xml(value.items))>>
                   [] value.k = "list" ->
                          [n \in 1..Len(value.items) |->
                              IF value.items[n].k = "dict"
                              THEN Element(key, None, dict_to_xml(value.items[n].items))
                              ELSE Element(key, python_str(value.items[n]), <<>>)]
                   [] OTHER -> <<Element(key, python_str(value), <<>>)>>
         IN  first \o dict_to_xml(Tail(items))

\* A tag that ET.tostring writes and a parser reads back as one name.
xml_name(tag) == tag \notin {"", "a b"}

RECURSIVE names_ok(_)
names_ok(element) ==
    /\ xml_name(element.tag)
    /\ \A n \in 1..Len(element.children) : names_ok(element.children[n])

\* ET.fromstring(ET.tostring(element)) for an element whose tags are names:
\* an empty text comes back as None.
RECURSIVE reparse(_)
reparse(element) ==
    Element(element.tag,
            IF element.text = "" THEN None ELSE element.text,
            [n \in 1..Len(element.children) |-> reparse(element.children[n])])

\* What from_dict hands back: it raised, or it returned an XmlBody whose
\* text parses, or not, to the element `root`.
XmlBodyOf(element) ==
    IF names_ok(element)
    THEN [state |-> "built", parses |-> TRUE, root |-> reparse(element)]
    ELSE [state |-> "built", parses |-> FALSE, root |-> <<>>]

RaisedValueError == [state |-> "raised", parses |-> FALSE, root |-> <<>>]

\* XmlBody.from_dict of plugins/.../xml_body.py, with a root tag and no
\* namespace.
from_dict_plugins(data, root_tag) ==
    IF data = <<>>
    THEN RaisedValueError
    ELSE XmlBodyOf(Element(root_tag, None, add_elements(data)))

\* XmlBody.from_dict of module_utils/.../xml_body.py; __post_init__ parses
\* the text and raises ValueError if that fails.
from_dict_module_utils(data, root_tag) ==
    IF XmlBodyOf(Element(root_tag, None, dict_to_xml(data))).parses
    THEN XmlBodyOf(Element(root_tag, None, dict_to_xml(data)))
    ELSE RaisedValueError

from_dict(impl, data, root_tag) ==
    IF impl = "plugins"
    THEN from_dict_plugins(data, root_tag)
    ELSE from_dict_module_utils(data, root_tag)

InitXmlBody ==
    /\ CoreIdle
    /\ SessionIdle
    /\ CacheKeyIdle
    /\ BatchInputIdle
    /\ ValidateIdle
    /\ InputIdle
    /\ EndpointIdle
    /\ EnvelopeIdle
    /\ xdata \in [impl : {"plugins", "module_utils"}, data : Datas,
                  root_tag : {"T", "Request"}]
    /\ xbody = [state |-> "pending", parses |-> FALSE, root |-> <<>>]

\* XmlBody.from_dict(data, root_tag)
FromDict ==
    /\ xbody.state = "pending"
    /\ xbody' = from_dict(xdata.impl, xdata.data, xdata.root_tag)
    /\ UNCHANGED xdata
    /\ UNCHANGED notXmlBodyVars

NextXmlBody == FromDict

SpecXmlBody == InitXmlBody /\ [][NextXmlBody]_vars

\* The element C26 asks for under a key: a leaf's string form as text (an
\* empty string reads back as no text), nothing inside for None, one
\* sibling per item of a sequence, the elements of its pairs for a mapping.
RECURSIVE C26_Elements(_)
C26_Elements(items) ==
    IF items = <<>>
    THEN <<>>
    ELSE LET key == items[1][1]
             value == items[1][2]
             one(v) ==
                 CASE v.k = "dict" -> Element(key, None, C26_Elements(v.items))
                   [] v.k = "none" -> Element(key, None, <<>>)
                   [] OTHER ->
                        Element(key,
                                IF python_str(v) = "" THEN None ELSE python_str(v),
                                <<>>)
         IN  (IF value.k = "list"
              THEN [n \in 1..Len(value.items) |-> one(value.items[n])]
              ELSE <<one(value)>>)
             \o C26_Elements(Tail(items))

\* C26: from_dict(data, T) of a non-empty mapping yields a fragment that
\* parses to one root element with tag T, in which every leaf's string form
\* is the text at its key path, a sequence of n items is n siblings named by
\* its key, and None is an empty element; empty data fails with ValueError.
C26_FromDictStructure ==
    xbody.state # "pending" =>
        IF xdata.data = <<>>
        THEN xbody.state = "raised"
        ELSE /\ xbody.state = "built"
             /\ xbody.parses
             /\ xbody.root = Element(xdata.root_tag, None, C26_Elements(xdata.data))

(***************************************************************************)
(* SpecBatchInput: soap_batch from its parameters to the dispatch          *)
(***************************************************************************)

\* Requests of a batch: one that passes validate_input and maps to a
\* command, one that validate_input turns down, and two that pass
\* validate_input but for which Endpoint(...) raises in dto_to_command.
GoodDto ==
    [endpoint_url |-> "http://h/s", body |-> "<a/>", body_dict |-> None,
     soap_version |-> "1.1", auth_type |-> "basic", username |-> TRUE,
     password |-> TRUE, cert_path |-> FALSE, timeout |-> 30,
     max_retries |-> 0, headers |-> None]

BatchDtos ==
    {GoodDto,
     [GoodDto EXCEPT !.soap_version = "2.0"],
     [GoodDto EXCEPT !.auth_type = "none"],
     [GoodDto EXCEPT !.endpoint_url = "example.com"]}

\* module.params of soap_batch.
BatchParams ==
    [requests : UNION {[1..n -> BatchDtos] : n \in 1..MaxRequests},
     stop_on_error : BOOLEAN]

\* The check of the loop, with every DTO let through.
dto_accepted_any(d) == TRUE

\* `is_valid, error = dto.validate_input()`, `if not is_valid: fail_json`
dto_accepted(d) == validate_input(d).ok

InitBatchInput ==
    /\ CoreIdle
    /\ SessionIdle
    /\ CacheKeyIdle
    /\ ValidateIdle
    /\ InputIdle
    /\ EndpointIdle
    /\ EnvelopeIdle
    /\ XmlBodyIdle
    /\ batch_in \in BatchParams
    /\ bpc = "dtos"
    /\ request_dtos = <<>>
    /\ commands = <<>>
    /\ dispatched = <<>>
    /\ bexit = "none"

\* One iteration of the loop over module.params['requests'].
BatchValidateNext ==
    /\ bpc = "dtos"
    /\ Len(request_dtos) < Len(batch_in.requests)
    /\ LET d == batch_in.requests[Len(request_dtos) + 1]
       IN  IF dto_accepted(d)
           THEN /\ request_dtos' = Append(request_dtos, d)
                /\ UNCHANGED <<bpc, bexit>>
           ELSE /\ bpc' = "exited"
                /\ bexit' = "fail_json"
                /\ UNCHANGED request_dtos
    /\ UNCHANGED <<batch_in, commands, dispatched>>
    /\ UNCHANGED notBatchInputVars

\* After the loop: the repository and the use case are created and
\* `commands = [DtoMapper.dto_to_command(dto) for dto in request_dtos]`
\* runs; a ValueError from it is reported by `except Exception` with
\* fail_json.
BatchMapCommands ==
    /\ bpc = "dtos"
    /\ Len(request_dtos) = Len(batch_in.requests)
    /\ IF \E i \in 1..Len(request_dtos) :
              dto_to_command(request_dtos[i]).raised # None
       THEN /\ bpc' = "exited"
            /\ bexit' = "fail_json"
            /\ UNCHANGED commands
       ELSE /\ commands' = [i \in 1..Len(request_dtos) |->
                               dto_to_command(request_dtos[i])]
            /\ bpc' = "executing"
            /\ UNCHANGED bexit
    /\ UNCHANGED <<batch_in, request_dtos, dispatched>>
    /\ UNCHANGED notBatchInputVars

\* use_case.execute(batch_command), one request of the sequential loop: it
\* is sent and succeeds or fails; stop_on_error ends the loop at a failure.
BatchSendNext ==
    /\ bpc = "executing"
    /\ Len(dispatched) < Len(commands)
    /\ \E o \in {"ok", "fail"} :
          /\ dispatched' = Append(dispatched, o)
          /\ bpc' = IF (batch_in.stop_on_error /\ o = "fail")
                       \/ Len(dispatched) + 1 = Len(commands)
                    THEN "executed" ELSE "executing"
    /\ UNCHANGED <<batch_in, request_dtos, commands, bexit>>
    /\ UNCHANGED notBatchInputVars

\* result.update(...), repository.close(), exit_json
BatchExit ==
    /\ bpc = "executed"
    /\ bpc' = "exited"
    /\ bexit' = "exit_json"
    /\ UNCHANGED <<batch_in, request_dtos, commands, dispatched>>
    /\ UNCHANGED notBatchInputVars

NextBatchInput ==
    \/ BatchValidateNext
    \/ BatchMapCommands
    \/ BatchSendNext
    \/ BatchExit

SpecBatchInput == InitBatchInput /\ [][NextBatchInput]_vars

\* C27: in soap_batch nothing is dispatched before every request has passed
\* validate_input and has been mapped to a command; a batch with a request
\* that fails either ends with fail_json and none of its requests sent.
C27_ValidateAllBeforeDispatch ==
    /\ dispatched # <<>> =>
          \A i \in 1..Len(batch_in.requests) :
              /\ validate_input(batch_in.requests[i]).ok
              /\ dto_to_command(batch_in.requests[i]).raised = None
    /\ (\E i \in 1..Len(batch_in.requests) :
            \/ ~validate_input(batch_in.requests[i]).ok
            \/ dto_to_command(batch_in.requests[i]).raised # None) =>
          /\ dispatched = <<>>
          /\ bpc = "exited" => bexit = "fail_json"

\* A batch whose second request is turned down after a valid first one has
\* ended with nothing sent.
C27_Witness ==
    /\ bpc = "exited"
    /\ bexit = "fail_json"
    /\ Len(batch_in.requests) >= 2
    /\ batch_in.requests[1] = GoodDto
    /\ ~validate_input(batch_in.requests[2]).ok
    /\ Len(request_dtos) = 1
    /\ dispatched = <<>>

(***************************************************************************)
(* SpecCacheKey: the keys of the response cache                            *)
(***************************************************************************)

\* Requests to two endpoints with two actions. Endpoint accepts both URLs
\* (scheme http, netloc h) and SoapAction accepts both actions (not empty,
\* no whitespace).
KeyUrls == {"http://h/s", "http://h/s:urn"}
KeyActions == {"GetA", "urn:GetA"}
KeyBodies == {"<a/>", "<b/>"}
KeyRequests == [url : KeyUrls, action : KeyActions, body : KeyBodies]

NoKeyRequest == [url |-> "", action |-> "", body |-> ""]

InitCacheKey ==
    /\ CoreIdle
    /\ SessionIdle
    /\ ValidateIdle
    /\ InputIdle
    /\ EndpointIdle
    /\ EnvelopeIdle
    /\ XmlBodyIdle
    /\ BatchInputIdle
    /\ key_cache = <<>>
    /\ key_origin = <<>>
    /\ key_call = [hit |-> FALSE, request |-> NoKeyRequest, origin |-> NoKeyRequest]

\* One call of SoapService.execute_request on the shared service. A call
\* that is answered from the cache returns the entry found under the
\* request's key; a call that stores its response becomes the origin of the
\* entry under that key.
KeyExecuteRequest ==
    /\ \E request \in KeyRequests, use_cache \in BOOLEAN :
         \E x \in service_execute_request(key_cache, 0, request, TRUE, use_cache) :
            LET cache_key ==
                    create_cache_key(request.url, request.action, request.body)
            IN  /\ key_cache' = x.cache
                /\ key_origin' =
                     IF x.sent /\ should_store(use_cache, x.ret)
                     THEN (cache_key :> request) @@ key_origin
                     ELSE key_origin
                /\ key_call' =
                     [hit |-> ~x.sent, request |-> request,
                      origin |-> IF x.sent THEN request ELSE key_origin[cache_key]]
    /\ UNCHANGED notCacheKeyVars

NextCacheKey == KeyExecuteRequest

SpecCacheKey == InitCacheKey /\ [][NextCacheKey]_vars

\* C29 as stated: a call answered from the cache returns a response that a
\* dispatch with the same URL, the same action and the same body produced:
\* requests that differ in one of the three never share a cache entry.
C29_CacheKeyInjective ==
    key_call.hit => key_call.origin = key_call.request

(***************************************************************************)
(* SpecSession: the session of one HttpClient shared by worker threads     *)
(***************************************************************************)

\* The threads that call post on the client: the workers of a parallel
\* batch (a sequential batch is the runs in which one of them works).
Threads == 1..MaxWorkers

InitSession ==
    /\ CoreIdle
    /\ ValidateIdle
    /\ InputIdle
    /\ EndpointIdle
    /\ EnvelopeIdle
    /\ XmlBodyIdle
    /\ BatchInputIdle
    /\ CacheKeyIdle
    /\ session = 0
    /\ sessions_created = 0
    /\ sessions_closed = {}
    /\ epoch_sessions = {}
    /\ tpc = [t \in Threads |-> "idle"]
    /\ local_session = [t \in Threads |-> 0]
    /\ posts = 0
    /\ closes = 0

\* `if self._session is None`
session_is_none(s) == s = 0

\* A thread calls post, which calls _get_session: the test of
\* `self._session is None`. No lock is held between the test and the
\* assignment that follows it.
PostGetSession(t) ==
    /\ tpc[t] = "idle"
    /\ posts < MaxRequests
    /\ posts' = posts + 1
    /\ tpc' = [tpc EXCEPT ![t] = IF session_is_none(session) THEN "create" ELSE "return"]
    /\ UNCHANGED <<session, sessions_created, sessions_closed, epoch_sessions,
                   local_session, closes>>
    /\ UNCHANGED notSessionVars

\* `self._session = requests.Session()`
CreateSession(t) ==
    /\ tpc[t] = "create"
    /\ sessions_created' = sessions_created + 1
    /\ session' = sessions_created + 1
    /\ epoch_sessions' = epoch_sessions \cup {sessions_created + 1}
    /\ tpc' = [tpc EXCEPT ![t] = "return"]
    /\ UNCHANGED <<sessions_closed, local_session, posts, closes>>
    /\ UNCHANGED notSessionVars

\* `return self._session`, `session = self._get_session()` in post
ReturnSession(t) ==
    /\ tpc[t] = "return"
    /\ local_session' = [local_session EXCEPT ![t] = session]
    /\ tpc' = [tpc EXCEPT ![t] = "request"]
    /\ UNCHANGED <<session, sessions_created, sessions_closed, epoch_sessions,
                   posts, closes>>
    /\ UNCHANGED notSessionVars

\* session.post(...) has answered or raised: post returns.
PostReturn(t) ==
    /\ tpc[t] = "request"
    /\ tpc' = [tpc EXCEPT ![t] = "idle"]
    /\ local_session' = [local_session EXCEPT ![t] = 0]
    /\ UNCHANGED <<session, sessions_created, sessions_closed, epoch_sessions,
                   posts, closes>>
    /\ UNCHANGED notSessionVars

\* HttpClient.close, called by the thread that owns the repository once the
\* workers are done.
CloseSession ==
    /\ \A t \in Threads : tpc[t] = "idle"
    /\ closes < MaxCloses
    /\ closes' = closes + 1
    /\ IF session # 0
       THEN /\ sessions_closed' = sessions_closed \cup {session}
            /\ session' = 0
       ELSE UNCHANGED <<session, sessions_closed>>
    /\ epoch_sessions' = {}
    /\ UNCHANGED <<sessions_created, tpc, local_session, posts>>
    /\ UNCHANGED notSessionVars

NextSession ==
    \/ \E t \in Threads : PostGetSession(t)
    \/ \E t \in Threads : CreateSession(t)
    \/ \E t \in Threads : ReturnSession(t)
    \/ \E t \in Threads : PostReturn(t)
    \/ CloseSession

SpecSession == InitSession /\ [][NextSession]_vars

\* C30 as stated: between construction (or the last close) and the next
\* close the client creates at most one session and every post call in
\* progress uses it, also when threads call post concurrently; close
\* releases the session (every session the client created is the current
\* one or has been closed), a second close changes nothing, and a call after
\* a close creates a fresh session.
C30_OneSessionPerClient ==
    /\ [](/\ Cardinality(epoch_sessions) <= 1
          /\ \A t \in Threads : tpc[t] = "request" => local_session[t] = session
          /\ \A n \in 1..sessions_created :
                n = session \/ n \in sessions_closed \/ n \in epoch_sessions)
    /\ [][closes' = closes + 1 =>
             /\ session' = 0
             /\ session # 0 => session \in sessions_closed'
             /\ session = 0 => sessions_closed' = sessions_closed]_vars
    /\ [][(session = 0 /\ session' # 0) => session' \notin sessions_closed]_vars

====
